---- MODULE Spec2Model ----
(***************************************************************************)
(* A model of dap-mcp's debug-session orchestration core:                  *)
(*   - the session and compound manager (internal/dap/session.go),         *)
(*   - the DAP client runtime (package dap: Client, Transport),            *)
(*   - the launch and attach tool handlers (internal/mcp/handlers.go).     *)
(*                                                                         *)
(* Every SessionManager method runs under sm.mu from its first statement   *)
(* to its return.  The model keeps the method in progress in `op`: while   *)
(* op.kind # "idle" the mutex is held and no other method can start.  The  *)
(* termination methods are split at the calls they make (disconnect and    *)
(* close the client, kill the process group, delete from the table) so     *)
(* that the order of these calls is visible.                               *)
(*                                                                         *)
(* The client is modelled with its goroutines: caller threads inside a     *)
(* client method, the reader loop, and the adapter at the other end of the *)
(* transport.  A timer of a select fires while the channel it competes     *)
(* with is empty; what the woken caller does next is a separate step.      *)
(*                                                                         *)
(* Specifications:                                                         *)
(*   Spec        the manager under all interleavings of its callers, the   *)
(*               timeout sweep and Close (client calls are single steps);  *)
(*   SpecClient  one client: requests, asynchronous launch, Close;         *)
(*   SpecWait    one client: ContinueAndWait against the reader loop;      *)
(*   SpecTerm    TerminateSession of a session with a live client, with    *)
(*               Disconnect and Close played out on that client;           *)
(*   SpecLaunch  the launch, attach and compound-launch handlers.          *)
(***************************************************************************)
EXTENDS Integers, Sequences, FiniteSets, TLC

\* ---------------------------------------------------------------- bounds
MaxSessions == 2        \* cfg.MaxSessions, the configured bound of the table
MaxIds == 2             \* how many fresh uuids CreateSession may draw
MaxClock == 1           \* how far the clock advances
SessionTimeout == 0     \* sm.sessionTimeout, in clock ticks

CompoundNames == {"X", "Y"}
NoName == "none"

VARIABLES
    sessions,           \* sm.sessions: id -> Session record
    compoundSessions,   \* sm.compoundSessions: name -> CompoundSession
    sessionToCompound,  \* sm.sessionToCompound: id -> compound name
    nextId,             \* the next uuid.New() (ids are never reused)
    now,                \* time.Now()
    cancelled,          \* sm.ctx is cancelled (cleanupLoop has stopped)
    op,                 \* the manager method holding sm.mu, and where it is
    tracked,            \* ids that were handed to TrackCompoundSession before
    last                \* the CreateSession, SetSessionClient or TerminateSession
                        \* call that has just returned, [op, err] or [op, err, id];
                        \* NoCall after any other step

mgrVars == <<sessions, compoundSessions, sessionToCompound, nextId, now,
             cancelled, op, tracked, last>>

\* The state of one DAP client, its caller threads and its adapter.
VARIABLES
    tseq,               \* transport.seq, the next sequence number
    pendingRequests,    \* the keys of c.pendingRequests
    respCh,             \* seq -> content of the response channel made for it
    inbound,            \* messages the adapter has written, not yet received
    adapter,            \* the adapter: requests it owes an answer to, ..., and
                        \* wire, the sequence numbers in the order it read them
    reader,             \* readLoop: [pc, errs]
    ctxDone,            \* c.ctx is cancelled
    closing,            \* Client.Close: "open", "wait" (in wg.Wait), "closed"
    initialized,        \* c.initialized is closed
    stoppedChan,        \* c.stoppedChan: the caller whose channel it is, or 0
    stoppedCh,          \* caller -> content of the stopped channel it made
    stopLog,            \* what handleMessage did with each stopped event
    th                  \* the caller threads

cliVars == <<tseq, pendingRequests, respCh, inbound, adapter, reader, ctxDone,
             closing, initialized, stoppedChan, stoppedCh, stopLog, th>>

VARIABLE h               \* the tool handler in progress (launch, attach, ...)

\* The server around them: what it was configured with, and a tool call other
\* than a launch or an attach.
VARIABLES
    maxSessions,        \* sm.maxSessions
    config,             \* s.config: [Mode, AllowModify, AllowExecute]
    tool,               \* the tool call in progress
    lc                  \* a call into package launchconfig: its arguments and result

srvVars == <<maxSessions, config, tool, lc>>

\* What a session manager step and a client step leave alone.
notMgr == <<cliVars, h, srvVars>>

notCli == <<mgrVars, h, srvVars>>

\* ------------------------------------------------------------ the server
\* types.Language: the languages a session can have.
Languages == {"go", "python", "javascript", "typescript", "rust", "c", "cpp"}

\* The language of the launch and attach requests of the specifications in
\* which the language decides nothing.
RequestLanguage == "go"

\* types.SessionStatus
Statuses == {"initializing", "running", "stopped", "terminated"}

\* config.CapabilityMode
Modes == {"readonly", "full"}

DefaultConfig == [Mode |-> "full", AllowModify |-> TRUE, AllowExecute |-> TRUE]

Configs == [Mode : Modes, AllowModify : BOOLEAN, AllowExecute : BOOLEAN]

\* A tool call: the tool, where its handler is, the sessionId and the other
\* argument of the request, the client call it is in, the DAP commands it has
\* sent, its result; for run_to_line also bps[0].Line, the StoppedInfo reason,
\* the line the debuggee is stopped at, the top frame line of the stackTrace
\* response and the snapshot built.
NoTool ==
    [name |-> "none", pc |-> "idle", id |-> 0, arg |-> 0, step |-> "none",
     sent |-> <<>>, res |-> "none", bp |-> 0, reason |-> "none", at |-> 0,
     top |-> 0, snapshot |-> [stoppedAt |-> 0, reason |-> "none"],
           batch |-> FALSE, exprs |-> <<>>, frameId |-> 0, results |-> <<>>,
           outs |-> <<>>, before |-> {}, bps |-> {}]

\* NewServer keeps the configuration; no tool call has come in yet.
NoLc == [pc |-> "none"]

NewServer(cfg) ==
    /\ config = cfg
    /\ tool = NoTool
    /\ lc = NoLc

\* ------------------------------------------------------ helper operators
Remove(f, k) == [x \in DOMAIN f \ {k} |-> f[x]]

Put(f, k, v) == [x \in DOMAIN f \cup {k} |-> IF x = k THEN v ELSE f[x]]

RECURSIVE SetToSeq(_)
SetToSeq(S) ==
    IF S = {} THEN <<>>
    ELSE LET m == CHOOSE x \in S : \A y \in S : x <= y
         IN <<m>> \o SetToSeq(S \ {m})

Range(s) == {s[i] : i \in 1..Len(s)}

Idle ==
    [kind |-> "idle", id |-> 0, td |-> FALSE, cname |-> NoName,
     stop |-> FALSE, peers |-> <<>>, pending |-> {}, cur |-> 0,
     locked |-> FALSE, phase |-> "none", sent |-> "none", killed |-> FALSE,
     done |-> {}, pre |-> <<>>]

Returned(o, err) == [op |-> o, err |-> err]

\* The same for a call that named a session id.
ReturnedFor(o, id, err) == [op |-> o, err |-> err, id |-> id]

NoCall == Returned("none", "nil")

\* ------------------------------------------------------- SessionManager
NewSessionManager(max) ==
    /\ maxSessions = max
    /\ sessions = <<>>
    /\ compoundSessions = [n \in {} |-> 0]
    /\ sessionToCompound = <<>>
    /\ nextId = 1
    /\ now = 0
    /\ cancelled = FALSE
    /\ op = Idle
    /\ tracked = {}
    /\ last = NoCall

\* The guard of CreateSession: the table is at the configured bound.
TableFullMutGt == Cardinality(DOMAIN sessions) > maxSessions
TableFull == Cardinality(DOMAIN sessions) >= maxSessions

CreateSession(language) ==
    /\ op.kind = "idle"
    /\ IF TableFull
       THEN /\ last' = Returned("CreateSession", "maximum number of sessions reached")
            /\ UNCHANGED <<sessions, nextId>>
       ELSE /\ nextId <= MaxIds
            /\ sessions' = Put(sessions, nextId,
                               [Language |-> language, Status |-> "initializing",
                                Client |-> FALSE, Process |-> FALSE, PID |-> 0,
                                CreatedAt |-> now])
            /\ nextId' = nextId + 1
            /\ last' = Returned("CreateSession", "nil")
    /\ UNCHANGED <<compoundSessions, sessionToCompound, now, cancelled, op, tracked>>

SetSessionClientMutDrop(id) ==
    /\ op.kind = "idle"
    /\ IF id \notin DOMAIN sessions
       THEN /\ last' = ReturnedFor("SetSessionClient", id, "session not found")
            /\ UNCHANGED sessions
       ELSE /\ UNCHANGED sessions
            /\ last' = ReturnedFor("SetSessionClient", id, "nil")
    /\ UNCHANGED <<compoundSessions, sessionToCompound, nextId, now, cancelled, op, tracked>>
SetSessionClient(id) ==
    /\ op.kind = "idle"
    /\ IF id \notin DOMAIN sessions
       THEN /\ last' = ReturnedFor("SetSessionClient", id, "session not found")
            /\ UNCHANGED sessions
       ELSE /\ sessions' = [sessions EXCEPT ![id].Client = TRUE]
            /\ last' = ReturnedFor("SetSessionClient", id, "nil")
    /\ UNCHANGED <<compoundSessions, sessionToCompound, nextId, now, cancelled, op, tracked>>

\* cmd is TRUE for a command with a started process (cmd.Process # nil).
SetSessionProcess(id, cmd, pid) ==
    /\ op.kind = "idle"
    /\ IF id \notin DOMAIN sessions
       THEN /\ last' = NoCall
            /\ UNCHANGED sessions
       ELSE /\ sessions' = [sessions EXCEPT ![id].Process = cmd, ![id].PID = pid]
            /\ last' = NoCall
    /\ UNCHANGED <<compoundSessions, sessionToCompound, nextId, now, cancelled, op, tracked>>

UpdateSessionStatus(id, status) ==
    /\ op.kind = "idle"
    /\ IF id \notin DOMAIN sessions
       THEN /\ last' = NoCall
            /\ UNCHANGED sessions
       ELSE /\ sessions' = [sessions EXCEPT ![id].Status = status]
            /\ last' = NoCall
    /\ UNCHANGED <<compoundSessions, sessionToCompound, nextId, now, cancelled, op, tracked>>

TrackCompoundSession(compoundName, sessionIDs, stopAll) ==
    /\ op.kind = "idle"
    /\ compoundSessions' = Put(compoundSessions, compoundName,
                               [Name |-> compoundName, SessionIDs |-> sessionIDs,
                                StopAll |-> stopAll])
    /\ sessionToCompound' =
           [x \in DOMAIN sessionToCompound \cup Range(sessionIDs) |->
               IF x \in Range(sessionIDs) THEN compoundName ELSE sessionToCompound[x]]
    /\ tracked' = tracked \cup Range(sessionIDs)
    /\ last' = NoCall
    /\ UNCHANGED <<sessions, nextId, now, cancelled, op>>

ListCompoundSessions == {compoundSessions[n] : n \in DOMAIN compoundSessions}

\* The siblings TerminateSession terminates first: the other members of the
\* stopAll compound the id is mapped to, in the order of SessionIDs.
SiblingsMutNone(id) == <<>>
Siblings(id) ==
    IF /\ id \in DOMAIN sessionToCompound
       /\ sessionToCompound[id] \in DOMAIN compoundSessions
       /\ compoundSessions[sessionToCompound[id]].StopAll
    THEN SelectSeq(compoundSessions[sessionToCompound[id]].SessionIDs,
                   LAMBDA s : s # id)
    ELSE <<>>

\* session, ok := sm.sessions[id]
SessionExistsMutAlways(id) == TRUE
SessionExists(id) == id \in DOMAIN sessions

\* TerminateSession, lines 149-171: lock, look the id up, find the compound.
TerminateSession(id, terminateDebuggee) ==
    /\ op.kind = "idle"
    /\ IF ~SessionExists(id)
       THEN /\ last' = ReturnedFor("TerminateSession", id, "session not found")
            /\ UNCHANGED op
       ELSE /\ op' = [Idle EXCEPT
                        !.kind = "TerminateSession", !.id = id,
                        !.td = terminateDebuggee,
                        !.cname = IF id \in DOMAIN sessionToCompound
                                  THEN sessionToCompound[id] ELSE NoName,
                        !.stop = /\ id \in DOMAIN sessionToCompound
                                 /\ sessionToCompound[id] \in DOMAIN compoundSessions
                                 /\ compoundSessions[sessionToCompound[id]].StopAll,
                        !.peers = Siblings(id),
                        !.phase = "peers", !.pre = compoundSessions]
            /\ last' = NoCall
    /\ UNCHANGED <<sessions, compoundSessions, sessionToCompound, nextId, now,
                   cancelled, tracked>>

\* The loop over the siblings (lines 161-166) and the clean-up of the compound
\* tracking after it (lines 167-170).
TerminatePeers ==
    /\ op.kind = "TerminateSession" /\ op.phase = "peers"
    /\ IF op.peers # <<>>
       THEN LET s == Head(op.peers) IN
            IF s \in DOMAIN sessions
            THEN /\ op' = [op EXCEPT !.cur = s, !.locked = TRUE, !.phase = "disc",
                                     !.sent = "none", !.killed = FALSE]
                 /\ UNCHANGED <<compoundSessions, sessionToCompound>>
            ELSE \* terminateSessionLocked returns at once (line 198)
                 /\ op' = [op EXCEPT !.peers = Tail(op.peers)]
                 /\ sessionToCompound' = Remove(sessionToCompound, s)
                 /\ UNCHANGED compoundSessions
       ELSE /\ compoundSessions' =
                  IF op.stop THEN Remove(compoundSessions, op.cname)
                  ELSE compoundSessions
            /\ sessionToCompound' = Remove(sessionToCompound, op.id)
            /\ op' = [op EXCEPT !.cur = op.id, !.locked = FALSE, !.phase = "disc",
                                !.sent = "none", !.killed = FALSE]
    /\ last' = NoCall
    /\ UNCHANGED <<sessions, nextId, now, cancelled, tracked>>

\* session.Client.Disconnect(flag) and session.Client.Close(), when the session
\* has a client.  terminateSessionLocked always passes true.
DisconnectFlag == IF op.locked THEN "true" ELSE IF op.td THEN "true" ELSE "false"

DisconnectClient ==
    /\ op.kind # "idle" /\ op.phase = "disc"
    /\ op' = [op EXCEPT !.phase = "kill",
                        !.sent = IF sessions[op.cur].Client THEN DisconnectFlag
                                 ELSE "none"]
    /\ last' = NoCall
    /\ UNCHANGED <<sessions, compoundSessions, sessionToCompound, nextId, now,
                   cancelled, tracked>>

\* The build: process_unix.go (every GOOS but windows) or process_windows.go.
GOOS == "linux"

\* killProcessGroup(session.PID, session.Process): TRUE when it signals.  On
\* unix the process group of pid, or with no pid the process of cmd; on
\* windows the process of cmd only.
killProcessGroup(pid, cmd) ==
    IF GOOS = "windows" THEN cmd ELSE pid > 0 \/ cmd

KillProcessMutSkipLocked ==
    /\ op.kind # "idle" /\ op.phase = "kill"
    /\ op' = [op EXCEPT !.phase = "del",
                        !.killed = ~op.locked /\ killProcessGroup(sessions[op.cur].PID, sessions[op.cur].Process)]
    /\ last' = NoCall
    /\ UNCHANGED <<sessions, compoundSessions, sessionToCompound, nextId, now,
                   cancelled, tracked>>
KillProcess ==
    /\ op.kind # "idle" /\ op.phase = "kill"
    /\ op' = [op EXCEPT !.phase = "del",
                        !.killed = killProcessGroup(sessions[op.cur].PID, sessions[op.cur].Process)]
    /\ last' = NoCall
    /\ UNCHANGED <<sessions, compoundSessions, sessionToCompound, nextId, now,
                   cancelled, tracked>>

\* session.Status = terminated; delete(sm.sessions, id); and the return: of
\* terminateSessionLocked to its caller, or of TerminateSession.
DeleteSession ==
    /\ op.kind # "idle" /\ op.phase = "del"
    /\ sessions' = Remove(sessions, op.cur)
    /\ IF ~op.locked
       THEN /\ op' = Idle
            /\ last' = ReturnedFor("TerminateSession", op.id, "nil")
            /\ UNCHANGED sessionToCompound
       ELSE IF op.kind = "TerminateSession"
       THEN /\ op' = [op EXCEPT !.peers = Tail(op.peers), !.phase = "peers",
                                !.done = op.done \cup {op.cur}, !.cur = 0, !.sent = "none", !.killed = FALSE]
            /\ sessionToCompound' = Remove(sessionToCompound, op.cur)
            /\ last' = NoCall
       ELSE /\ op' = [op EXCEPT !.pending = op.pending \ {op.cur}, !.phase = "loop",
                                !.done = op.done \cup {op.cur}, !.cur = 0, !.sent = "none", !.killed = FALSE]
            /\ last' = NoCall
            /\ UNCHANGED sessionToCompound
    /\ UNCHANGED <<compoundSessions, nextId, now, cancelled, tracked>>

\* The ids cleanupExpiredSessions terminates.
Expired == {id \in DOMAIN sessions : now - sessions[id].CreatedAt > SessionTimeout}

cleanupExpiredSessions ==
    /\ op.kind = "idle"
    /\ op' = [Idle EXCEPT !.kind = "cleanupExpiredSessions", !.pending = Expired,
                          !.phase = "loop"]
    /\ last' = NoCall
    /\ UNCHANGED <<sessions, compoundSessions, sessionToCompound, nextId, now,
                   cancelled, tracked>>

\* Close, line 310: sm.cancel(), before the lock is asked for.  A cancelled
\* context ends cleanupLoop at its next select that does not pick the ticker;
\* no method of the manager looks at it.
CloseCancel ==
    /\ ~cancelled
    /\ cancelled' = TRUE
    /\ last' = NoCall
    /\ UNCHANGED <<sessions, compoundSessions, sessionToCompound, nextId, now, op,
                   tracked>>

\* Close, lines 312-317: the lock, then the loop over the table.
Close ==
    /\ cancelled
    /\ op.kind = "idle"
    /\ op' = [Idle EXCEPT !.kind = "Close", !.pending = DOMAIN sessions,
                          !.phase = "loop"]
    /\ last' = NoCall
    /\ UNCHANGED <<sessions, compoundSessions, sessionToCompound, nextId, now,
                   cancelled, tracked>>

\* One turn of `for id := range sm.sessions` (map order is not specified).
RangeSessionsMutFirst ==
    /\ op.kind \in {"cleanupExpiredSessions", "Close"} /\ op.phase = "loop"
    /\ IF op.pending = {} \/ op.done # {}
       THEN /\ op' = Idle
            /\ last' = NoCall
       ELSE /\ \E s \in op.pending :
                 op' = [op EXCEPT !.cur = s, !.locked = TRUE, !.phase = "disc"]
            /\ last' = NoCall
    /\ UNCHANGED <<sessions, compoundSessions, sessionToCompound, nextId, now,
                   cancelled, tracked>>
RangeSessions ==
    /\ op.kind \in {"cleanupExpiredSessions", "Close"} /\ op.phase = "loop"
    /\ IF op.pending = {}
       THEN /\ op' = Idle
            /\ last' = NoCall
       ELSE /\ \E s \in op.pending :
                 op' = [op EXCEPT !.cur = s, !.locked = TRUE, !.phase = "disc"]
            /\ last' = NoCall
    /\ UNCHANGED <<sessions, compoundSessions, sessionToCompound, nextId, now,
                   cancelled, tracked>>

Tick ==
    /\ op.kind = "idle"
    /\ now < MaxClock
    /\ now' = now + 1
    /\ last' = NoCall
    /\ UNCHANGED <<sessions, compoundSessions, sessionToCompound, nextId,
                   cancelled, op, tracked>>

\* The ids a caller can name: every id handed out so far.
Issued == 1..(nextId - 1)

\* The id lists handleDebugLaunchCompound registers: the sessions it has just
\* launched (in the table, never registered before), in creation order.  It
\* registers only compounds whose stopAll is set.
Launched == {SetToSeq(S) : S \in (SUBSET (DOMAIN sessions \ tracked)) \ {{}}}


\* ------------------------------------------------------------ DAP client
\* One client and its adapter.  A caller thread is a record [op, pc, seq, ch,
\* res, got]: the client method it is in, where it is in that method, the sequence
\* number it drew, the channel an asynchronous launch or attach returned to it
\* (named by the sequence number of that request), the result the method
\* returned, and the stop it was given.
Callers == {1, 2}

maxConsecutiveErrors == 5

MaxWire == 2            \* frames the adapter may have in flight unasked
MaxMalformed == 6       \* frames that do not decode, per adapter

IdleThread ==
    [op |-> "none", pc |-> "idle", seq |-> 0, ch |-> 0, res |-> "none", got |-> 0]

Response(n, ok) == [kind |-> "response", seq |-> n, ok |-> ok]

Event(k, n) == [kind |-> k, seq |-> n, ok |-> TRUE]

\* Bytes on the transport that dap.ReadProtocolMessage cannot decode: Receive
\* consumes them and returns an error.
Malformed == [kind |-> "malformed", seq |-> 0, ok |-> FALSE]

Decodes(m) == m.kind # "malformed"

\* The client NewClient returns: nothing pending, the reader in Receive.
Fresh(ts, pr, rc, ib, ad, rd, cd, cl, ini, sc, sch, sl, t) ==
    /\ ts = 1
    /\ pr = {}
    /\ rc = <<>>
    /\ ib = <<>>
    /\ ad = [reqs |-> {}, stops |-> {}, init |-> "no", exited |-> FALSE,
             wire |-> <<>>, malformed |-> 0]
    /\ rd = [pc |-> "head", errs |-> 0]
    /\ cd = FALSE
    /\ cl = "open"
    /\ ini = FALSE
    /\ sc = 0
    /\ sch = [c \in Callers |-> <<>>]
    /\ sl = {}
    /\ t = [c \in Callers |-> IdleThread]

NewClient ==
    Fresh(tseq, pendingRequests, respCh, inbound, adapter, reader, ctxDone,
          closing, initialized, stoppedChan, stoppedCh, stopLog, th)

\* A handler connects to a newly spawned adapter: from here on the client
\* variables describe the client of that session.
ConnectNewClient ==
    Fresh(tseq', pendingRequests', respCh', inbound', adapter', reader', ctxDone',
          closing', initialized', stoppedChan', stoppedCh', stopLog', th')

\* The DAP command a client method sends.
Command(o) ==
    CASE o = "ContinueAndWait" -> "continue"
      [] o = "LaunchAsync" -> "launch"
      [] o = "AttachAsync" -> "attach"
      [] OTHER -> o

\* The commands that set the debuggee running: a stopped event may follow.
Resuming == {"continue", "next", "stepIn", "stepOut"}

\* Where a client method starts.
Entry(o) ==
    CASE o \in {"ContinueAndWait", "WaitForStopped"} -> "arm"
      [] o \in {"WaitForLaunchResponse", "WaitForAttachResponse"} -> "waitLaunch"
      [] o = "WaitInitialized" -> "waitInit"
      [] OTHER -> "seq"

\* Where the method goes on when sendRequest has returned res.
AfterRequest(o, res) ==
    IF o = "ContinueAndWait"
    THEN IF res = "ok" THEN "waitStopped" ELSE "disarm"
    ELSE "done"

\* A caller enters a client method.
Call(t, o) ==
    /\ th[t].pc \in {"idle", "done"}
    /\ th' = [th EXCEPT ![t] = [@ EXCEPT !.op = o, !.pc = Entry(o), !.res = "none",
                                         !.got = 0]]
    /\ UNCHANGED <<tseq, pendingRequests, respCh, inbound, adapter, reader, ctxDone,
                   closing, initialized, stoppedChan, stoppedCh, stopLog>>

\* seq := c.transport.NextSeq()
NextSeq(t) ==
    /\ th[t].pc = "seq"
    /\ th' = [th EXCEPT ![t].seq = tseq, ![t].pc = "send"]
    /\ tseq' = tseq + 1
    /\ UNCHANGED <<pendingRequests, respCh, inbound, adapter, reader, ctxDone,
                   closing, initialized, stoppedChan, stoppedCh, stopLog>>

\* sendRequest, lines 260-263: the slot is made and, under c.mu, inserted.
InsertSlot(t) ==
    /\ th[t].pc = "send"
    /\ respCh' = Put(respCh, th[t].seq, "empty")
    /\ pendingRequests' = pendingRequests \cup {th[t].seq}
    /\ th' = [th EXCEPT ![t].pc = "write"]
    /\ UNCHANGED <<tseq, inbound, adapter, reader, ctxDone, closing, initialized,
                   stoppedChan, stoppedCh, stopLog>>

\* c.transport.Send(req), line 266, with c.mu released.  The write fails on a
\* closed transport and may fail once the adapter has gone.  LaunchAsync and
\* AttachAsync return the channel once the request is written.
SendFails == IF closing = "closed" THEN {TRUE}
             ELSE IF adapter.exited THEN {TRUE, FALSE} ELSE {FALSE}

SendRequest(t) ==
    /\ th[t].pc = "write"
    /\ \E fails \in SendFails :
         LET n == th[t].seq
             o == th[t].op
         IN  IF fails
             THEN /\ th' = [th EXCEPT ![t].pc = "sendfailed"]
                  /\ UNCHANGED adapter
             ELSE /\ adapter' = [adapter EXCEPT
                        !.reqs = @ \cup {[seq |-> n, cmd |-> Command(o)]},
                        !.wire = Append(@, n),
                        !.stops = IF Command(o) \in Resuming THEN @ \cup {n} ELSE @,
                        !.init = IF Command(o) = "initialize" /\ @ = "no"
                                 THEN "may" ELSE @]
                  /\ th' = [th EXCEPT
                        ![t].pc = IF o \in {"LaunchAsync", "AttachAsync"}
                                  THEN "done" ELSE "wait",
                        ![t].res = IF o \in {"LaunchAsync", "AttachAsync"}
                                   THEN "ok" ELSE "none",
                        ![t].ch = IF o \in {"LaunchAsync", "AttachAsync"}
                                  THEN n ELSE @]
    /\ UNCHANGED <<tseq, pendingRequests, respCh, inbound, reader, ctxDone, closing,
                   initialized, stoppedChan, stoppedCh, stopLog>>

\* sendRequest, lines 267-270: after a failed write the caller takes c.mu
\* again, deletes its slot and returns the error.
SendFailed(t) ==
    /\ th[t].pc = "sendfailed"
    /\ pendingRequests' = pendingRequests \ {th[t].seq}
    /\ th' = [th EXCEPT ![t].res = "send failed",
                        ![t].pc = AfterRequest(th[t].op, "send failed")]
    /\ UNCHANGED <<tseq, respCh, inbound, adapter, reader, ctxDone, closing,
                   initialized, stoppedChan, stoppedCh, stopLog>>

\* select in sendRequest, case resp := <-respCh
RecvResponse(t) ==
    /\ th[t].pc = "wait"
    /\ respCh[th[t].seq] \in {"ok", "error"}
    /\ th' = [th EXCEPT ![t].res = respCh[th[t].seq],
                        ![t].pc = AfterRequest(th[t].op, respCh[th[t].seq])]
    /\ respCh' = [respCh EXCEPT ![th[t].seq] = "taken"]
    /\ UNCHANGED <<tseq, pendingRequests, inbound, adapter, reader, ctxDone,
                   closing, initialized, stoppedChan, stoppedCh, stopLog>>

\* select in sendRequest, case <-time.After(timeout): the timer wakes the
\* caller while no response is in the channel ...
RequestTimeout(t) ==
    /\ th[t].pc = "wait"
    /\ respCh[th[t].seq] = "empty"
    /\ th' = [th EXCEPT ![t].pc = "timedout"]
    /\ UNCHANGED <<tseq, pendingRequests, respCh, inbound, adapter, reader, ctxDone,
                   closing, initialized, stoppedChan, stoppedCh, stopLog>>

\* ... and the caller then takes c.mu, deletes its slot and returns the error.
TimeoutCleanup(t) ==
    /\ th[t].pc = "timedout"
    /\ pendingRequests' = pendingRequests \ {th[t].seq}
    /\ th' = [th EXCEPT ![t].res = "request timeout",
                        ![t].pc = AfterRequest(th[t].op, "request timeout")]
    /\ UNCHANGED <<tseq, respCh, inbound, adapter, reader, ctxDone,
                   closing, initialized, stoppedChan, stoppedCh, stopLog>>

\* select in sendRequest, case <-c.ctx.Done(): returns c.ctx.Err()
RequestCancelled(t) ==
    /\ th[t].pc = "wait"
    /\ ctxDone
    /\ th' = [th EXCEPT ![t].res = "context canceled",
                        ![t].pc = AfterRequest(th[t].op, "context canceled")]
    /\ UNCHANGED <<tseq, pendingRequests, respCh, inbound, adapter, reader, ctxDone,
                   closing, initialized, stoppedChan, stoppedCh, stopLog>>

\* WaitForLaunchResponse / WaitForAttachResponse on the channel the async
\* call returned: the response, the timer, or c.ctx.Done().  Neither of the
\* last two touches c.pendingRequests.
LaunchResponseMutType(t) ==
    /\ th[t].pc = "waitLaunch"
    /\ respCh[th[t].ch] \in {"ok", "error"}
    /\ th' = [th EXCEPT ![t].res = "error", ![t].pc = "done"]
    /\ respCh' = [respCh EXCEPT ![th[t].ch] = "taken"]
    /\ UNCHANGED <<tseq, pendingRequests, inbound, adapter, reader, ctxDone,
                   closing, initialized, stoppedChan, stoppedCh, stopLog>>
LaunchResponse(t) ==
    /\ th[t].pc = "waitLaunch"
    /\ respCh[th[t].ch] \in {"ok", "error"}
    /\ th' = [th EXCEPT ![t].res = respCh[th[t].ch], ![t].pc = "done"]
    /\ respCh' = [respCh EXCEPT ![th[t].ch] = "taken"]
    /\ UNCHANGED <<tseq, pendingRequests, inbound, adapter, reader, ctxDone,
                   closing, initialized, stoppedChan, stoppedCh, stopLog>>

LaunchTimeout(t) ==
    /\ th[t].pc = "waitLaunch"
    /\ respCh[th[t].ch] = "empty"
    /\ th' = [th EXCEPT ![t].pc = "done",
                        ![t].res = IF th[t].op = "WaitForAttachResponse"
                                   THEN "attach response timeout"
                                   ELSE "launch response timeout"]
    /\ UNCHANGED <<tseq, pendingRequests, respCh, inbound, adapter, reader, ctxDone,
                   closing, initialized, stoppedChan, stoppedCh, stopLog>>

LaunchCancelled(t) ==
    /\ th[t].pc = "waitLaunch"
    /\ ctxDone
    /\ th' = [th EXCEPT ![t].res = "context canceled", ![t].pc = "done"]
    /\ UNCHANGED <<tseq, pendingRequests, respCh, inbound, adapter, reader, ctxDone,
                   closing, initialized, stoppedChan, stoppedCh, stopLog>>

\* WaitInitialized: the latch, the timer, or c.ctx.Done().
WaitInitialized(t) ==
    /\ th[t].pc = "waitInit"
    /\ \/ initialized /\ th' = [th EXCEPT ![t].res = "ok", ![t].pc = "done"]
       \/ ~initialized /\ th' = [th EXCEPT ![t].pc = "done",
                                   ![t].res = "timeout waiting for initialized event"]
       \/ ctxDone /\ th' = [th EXCEPT ![t].res = "context canceled", ![t].pc = "done"]
    /\ UNCHANGED <<tseq, pendingRequests, respCh, inbound, adapter, reader, ctxDone,
                   closing, initialized, stoppedChan, stoppedCh, stopLog>>

\* ContinueAndWait, lines 1057-1061, and WaitForStopped, lines 1032-1036:
\* make the channel and install it.  ContinueAndWait then calls c.Continue,
\* WaitForStopped goes to its select.
ArmStoppedMutNever(t) ==
    /\ th[t].pc = "arm"
    /\ stoppedCh' = [stoppedCh EXCEPT ![t] = <<>>]
    /\ th' = [th EXCEPT ![t].pc = IF th[t].op = "WaitForStopped"
                                  THEN "waitStopped" ELSE "seq"]
    /\ UNCHANGED <<tseq, pendingRequests, respCh, inbound, adapter, reader, ctxDone,
                   closing, initialized, stoppedChan, stopLog>>
ArmStopped(t) ==
    /\ th[t].pc = "arm"
    /\ stoppedChan' = t
    /\ stoppedCh' = [stoppedCh EXCEPT ![t] = <<>>]
    /\ th' = [th EXCEPT ![t].pc = IF th[t].op = "WaitForStopped"
                                  THEN "waitStopped" ELSE "seq"]
    /\ UNCHANGED <<tseq, pendingRequests, respCh, inbound, adapter, reader, ctxDone,
                   closing, initialized, stopLog>>

\* The select of ContinueAndWait and of WaitForStopped: the stop, the timer,
\* or c.ctx.Done().
StoppedReceived(t) ==
    /\ th[t].pc = "waitStopped"
    /\ stoppedCh[t] # <<>>
    /\ th' = [th EXCEPT ![t].res = "stopped", ![t].got = Head(stoppedCh[t]),
                        ![t].pc = "disarm"]
    /\ stoppedCh' = [stoppedCh EXCEPT ![t] = <<>>]
    /\ UNCHANGED <<tseq, pendingRequests, respCh, inbound, adapter, reader, ctxDone,
                   closing, initialized, stoppedChan, stopLog>>

StoppedTimeout(t) ==
    /\ th[t].pc = "waitStopped"
    /\ stoppedCh[t] = <<>>
    /\ th' = [th EXCEPT ![t].pc = "disarm",
                        ![t].res = IF th[t].op = "WaitForStopped"
                                   THEN "timeout waiting for stopped event"
                                   ELSE "timeout waiting for stopped event after continue"]
    /\ UNCHANGED <<tseq, pendingRequests, respCh, inbound, adapter, reader, ctxDone,
                   closing, initialized, stoppedChan, stoppedCh, stopLog>>

StoppedCancelled(t) ==
    /\ th[t].pc = "waitStopped"
    /\ ctxDone
    /\ th' = [th EXCEPT ![t].res = "context canceled", ![t].pc = "disarm"]
    /\ UNCHANGED <<tseq, pendingRequests, respCh, inbound, adapter, reader, ctxDone,
                   closing, initialized, stoppedChan, stoppedCh, stopLog>>

\* The deferred function of ContinueAndWait and of WaitForStopped:
\* c.stoppedChan = nil.
DisarmStopped(t) ==
    /\ th[t].pc = "disarm"
    /\ stoppedChan' = 0
    /\ th' = [th EXCEPT ![t].pc = "done"]
    /\ UNCHANGED <<tseq, pendingRequests, respCh, inbound, adapter, reader, ctxDone,
                   closing, initialized, stoppedCh, stopLog>>

\* The caller whose continue request has sequence number n, or 0.
ContinueCaller(n) ==
    IF \E t \in Callers : th[t].op = "ContinueAndWait" /\ th[t].seq = n
    THEN CHOOSE t \in Callers : th[t].op = "ContinueAndWait" /\ th[t].seq = n
    ELSE 0

\* c.initializedOnce.Do(func() { close(c.initialized) }): the latch after the
\* message m, given whether it was closed before.
initializedOnceMutReset(was, m) ==
    IF m.kind = "initialized" THEN ~was ELSE was
initializedOnce(was, m) == was \/ m.kind = "initialized"

\* handleMessage(m): a response goes to its slot, if the slot is still in the
\* table, and the slot is deleted; the initialized event closes the latch; a
\* stopped event goes to the installed channel if there is one with room.
handleMessageMutDeliver(m) ==
    /\ IF m.kind = "response"
       THEN /\ respCh' = Put(respCh, m.seq, IF m.ok THEN "ok" ELSE "error")
            /\ pendingRequests' = pendingRequests \ {m.seq}
       ELSE UNCHANGED <<respCh, pendingRequests>>
    /\ initialized' = initializedOnce(initialized, m)
    /\ IF m.kind = "stopped"
       THEN LET room == stoppedChan # 0 /\ stoppedCh[stoppedChan] = <<>>
                c == ContinueCaller(m.seq)
            IN  /\ stoppedCh' = IF room
                                THEN [stoppedCh EXCEPT ![stoppedChan] = <<m.seq>>]
                                ELSE stoppedCh
                /\ stopLog' = stopLog \cup
                      {[cause |-> m.seq, to |-> IF room THEN stoppedChan ELSE 0,
                        during |-> IF c = 0 THEN "none" ELSE th[c].pc]}
       ELSE UNCHANGED <<stoppedCh, stopLog>>
handleMessage(m) ==
    /\ IF m.kind = "response" /\ m.seq \in pendingRequests
       THEN /\ respCh' = [respCh EXCEPT ![m.seq] = IF m.ok THEN "ok" ELSE "error"]
            /\ pendingRequests' = pendingRequests \ {m.seq}
       ELSE UNCHANGED <<respCh, pendingRequests>>
    /\ initialized' = initializedOnce(initialized, m)
    /\ IF m.kind = "stopped"
       THEN LET room == stoppedChan # 0 /\ stoppedCh[stoppedChan] = <<>>
                c == ContinueCaller(m.seq)
            IN  /\ stoppedCh' = IF room
                                THEN [stoppedCh EXCEPT ![stoppedChan] = <<m.seq>>]
                                ELSE stoppedCh
                /\ stopLog' = stopLog \cup
                      {[cause |-> m.seq, to |-> IF room THEN stoppedChan ELSE 0,
                        during |-> IF c = 0 THEN "none" ELSE th[c].pc]}
       ELSE UNCHANGED <<stoppedCh, stopLog>>

\* readLoop, lines 81-85: the head of the loop tests c.ctx.Done() and returns,
\* or goes into Receive.  The reader loop starts here.
ReaderLoop ==
    /\ reader.pc = "head"
    /\ reader' = [reader EXCEPT !.pc = IF ctxDone THEN "done" ELSE "recv"]
    /\ UNCHANGED <<tseq, pendingRequests, respCh, inbound, adapter, ctxDone,
                   closing, initialized, stoppedChan, stoppedCh, stopLog, th>>

\* readLoop: Receive returned a message; it is handled and the loop goes back
\* to its head.
ReaderReceiveMutKeep ==
    /\ reader.pc = "recv"
    /\ inbound # <<>>
    /\ Decodes(Head(inbound))
    /\ handleMessage(Head(inbound))
    /\ inbound' = Tail(inbound)
    /\ reader' = [reader EXCEPT !.pc = "head"]
    /\ UNCHANGED <<tseq, adapter, ctxDone, closing, stoppedChan, th>>
ReaderReceive ==
    /\ reader.pc = "recv"
    /\ inbound # <<>>
    /\ Decodes(Head(inbound))
    /\ handleMessage(Head(inbound))
    /\ inbound' = Tail(inbound)
    /\ reader' = [pc |-> "head", errs |-> 0]
    /\ UNCHANGED <<tseq, adapter, ctxDone, closing, stoppedChan, th>>

\* readLoop: Receive returned an error: the adapter has closed its end, or
\* what it sent does not decode.
ReaderError ==
    /\ reader.pc = "recv"
    /\ \/ inbound = <<>> /\ adapter.exited
       \/ inbound # <<>> /\ ~Decodes(Head(inbound))
    /\ inbound' = IF inbound = <<>> THEN inbound ELSE Tail(inbound)
    /\ reader' = IF ctxDone \/ reader.errs + 1 >= maxConsecutiveErrors
                 THEN [reader EXCEPT !.pc = "done"]
                 ELSE [reader EXCEPT !.errs = @ + 1, !.pc = "head"]
    /\ UNCHANGED <<tseq, pendingRequests, respCh, adapter, ctxDone,
                   closing, initialized, stoppedChan, stoppedCh, stopLog, th>>

\* Client.Close: c.cancel() ...
ClientCancel ==
    /\ closing = "open"
    /\ ctxDone' = TRUE
    /\ closing' = "wait"
    /\ UNCHANGED <<tseq, pendingRequests, respCh, inbound, adapter, reader,
                   initialized, stoppedChan, stoppedCh, stopLog, th>>

\* ... c.wg.Wait() returns when readLoop has returned; c.transport.Close().
ClientWgWait ==
    /\ closing = "wait"
    /\ reader.pc = "done"
    /\ closing' = "closed"
    /\ UNCHANGED <<tseq, pendingRequests, respCh, inbound, adapter, reader, ctxDone,
                   initialized, stoppedChan, stoppedCh, stopLog, th>>

\* ---------------------------------------------------------------- adapter
\* The adapter answers a request it has received, with success or an error.
AdapterRespond(r, ok) ==
    /\ r \in adapter.reqs /\ ~adapter.exited
    /\ inbound' = Append(inbound, Response(r.seq, ok))
    /\ adapter' = [adapter EXCEPT !.reqs = @ \ {r}]
    /\ UNCHANGED <<tseq, pendingRequests, respCh, reader, ctxDone, closing,
                   initialized, stoppedChan, stoppedCh, stopLog, th>>

\* The debuggee stops after the continue request n.
AdapterStopped(n) ==
    /\ n \in adapter.stops /\ ~adapter.exited
    /\ inbound' = Append(inbound, Event("stopped", n))
    /\ adapter' = [adapter EXCEPT !.stops = @ \ {n}]
    /\ UNCHANGED <<tseq, pendingRequests, respCh, reader, ctxDone, closing,
                   initialized, stoppedChan, stoppedCh, stopLog, th>>

\* The adapter sends the initialized event, once, after the initialize request.
AdapterInitialized ==
    /\ adapter.init = "may" /\ ~adapter.exited
    /\ inbound' = Append(inbound, Event("initialized", 0))
    /\ adapter' = [adapter EXCEPT !.init = "sent"]
    /\ UNCHANGED <<tseq, pendingRequests, respCh, reader, ctxDone, closing,
                   initialized, stoppedChan, stoppedCh, stopLog, th>>

\* An adapter that sends the initialized event a second time.
AdapterInitializedAgain ==
    /\ adapter.init = "sent" /\ ~adapter.exited
    /\ inbound' = Append(inbound, Event("initialized", 0))
    /\ adapter' = [adapter EXCEPT !.init = "again"]
    /\ UNCHANGED <<tseq, pendingRequests, respCh, reader, ctxDone, closing,
                   initialized, stoppedChan, stoppedCh, stopLog, th>>

\* The adapter sends an event no part of the client waits for (output, ...).
AdapterEvent ==
    /\ ~adapter.exited
    /\ Len(inbound) < MaxWire
    /\ inbound' = Append(inbound, Event("output", 0))
    /\ UNCHANGED <<tseq, pendingRequests, respCh, adapter, reader, ctxDone,
                   closing, initialized, stoppedChan, stoppedCh, stopLog, th>>

\* The adapter sends a frame that does not decode; adapter.malformed counts them.
AdapterMalformed ==
    /\ ~adapter.exited
    /\ Len(inbound) < MaxWire
    /\ adapter.malformed < MaxMalformed
    /\ inbound' = Append(inbound, Malformed)
    /\ adapter' = [adapter EXCEPT !.malformed = @ + 1]
    /\ UNCHANGED <<tseq, pendingRequests, respCh, reader, ctxDone,
                   closing, initialized, stoppedChan, stoppedCh, stopLog, th>>

\* The adapter exits or closes its end of the transport.
AdapterExit ==
    /\ ~adapter.exited
    /\ adapter' = [adapter EXCEPT !.exited = TRUE]
    /\ UNCHANGED <<tseq, pendingRequests, respCh, inbound, reader, ctxDone, closing,
                   initialized, stoppedChan, stoppedCh, stopLog, th>>

\* The handler has finished with the client of h.cur (the session is up, or
\* is being terminated).  The client variables are not looked at again before
\* the next connect; they go back to their initial values.
ReleaseClient ==
    Fresh(tseq', pendingRequests', respCh', inbound', adapter', reader', ctxDone',
          closing', initialized', stoppedChan', stoppedCh', stopLog', th')

\* ---------------------------------------------------------- tool handlers
\* One launch, attach or compound-launch tool call.  h.cur is the session it
\* is working on, h.created every session it has created, h.sessionIDs the
\* sessions a compound launch has brought up so far, h.todo the configurations
\* still to launch, h.step the protocol step it is at, h.log the protocol
\* steps it has completed for h.cur.  Its client calls run on caller 1.
\* cmd is the process the handler spawned for h.cur (its pid; 0 is nil), and
\* signalled records that killProcessGroup signalled that process.
HandlerKinds == {"launch", "config", "attach", "attachBrowser", "compound"}

MaxConfigs == 2

NoHandler ==
    [kind |-> "none", pc |-> "idle", cur |-> 0, created |-> <<>>,
     sessionIDs |-> <<>>, todo |-> 0, stopAll |-> FALSE, step |-> 0,
     td |-> FALSE, res |-> "none", log |-> <<>>, cmd |-> 0, signalled |-> FALSE]

\* The client calls of the launch / attach protocol, in the order the handler
\* makes them.
StepsMutConfigFirst(kind) ==
    CASE kind = "attach" -> <<"initialize", "attach", "configurationDone">>
      [] kind = "attachBrowser" ->
            <<"initialize", "AttachAsync", "WaitInitialized", "configurationDone",
              "WaitForAttachResponse">>
      [] OTHER ->
            <<"initialize", "LaunchAsync", "configurationDone", "WaitInitialized",
              "WaitForLaunchResponse">>
Steps(kind) ==
    CASE kind = "attach" -> <<"initialize", "attach", "configurationDone">>
      [] kind = "attachBrowser" ->
            <<"initialize", "AttachAsync", "WaitInitialized", "configurationDone",
              "WaitForAttachResponse">>
      [] OTHER ->
            <<"initialize", "LaunchAsync", "WaitInitialized", "configurationDone",
              "WaitForLaunchResponse">>

\* The terminateDebuggee flag the handler passes when the step `at` fails.
TerminateFlagMutAlways(kind, at) == TRUE
TerminateFlag(kind, at) ==
    CASE at = "spawn" -> FALSE
      [] at = "connect" -> kind \in {"compound", "attachBrowser"}
      [] kind = "attach" /\ at \in {"attach", "configurationDone"} -> FALSE
      [] OTHER -> TRUE

\* The tool call arrives.  A compound has one or more configurations.
HandlerStart(kind, n, stopAll) ==
    /\ h.pc \in {"idle", "returned"}
    /\ h' = [NoHandler EXCEPT !.kind = kind, !.pc = "create", !.todo = n,
                              !.stopAll = stopAll]

\* handleDebugLaunchCompound: FindConfiguration or ResolveConfiguration fails
\* for the next configuration.
HandlerConfigFails ==
    /\ h.pc = "create" /\ h.kind = "compound"
    /\ h' = [h EXCEPT !.pc = "cleanup"]

\* s.sessionManager.CreateSession(...)
HandlerCreate ==
    /\ h.pc = "create"
    /\ CreateSession(RequestLanguage)
    /\ h' = IF last'.err = "nil"
            THEN [h EXCEPT !.cur = nextId, !.created = Append(@, nextId),
                           !.pc = IF h.kind = "attach" THEN "connect" ELSE "spawn",
                           !.step = 0, !.log = <<>>, !.cmd = 0,
                           !.signalled = FALSE]
            ELSE [h EXCEPT !.pc = "cleanup"]

\* CanSpawn and adapters.SpawnAndConnect (launch, config: the client exists
\* when it returns) or adapter.Spawn (launchSession, browser attach).
HandlerSpawn(ok) ==
    /\ h.pc = "spawn"
    /\ IF ok
       THEN /\ h' = [h EXCEPT !.pc = "setproc", !.cmd = h.cur]
            /\ IF h.kind \in {"launch", "config"}
               THEN ConnectNewClient ELSE UNCHANGED cliVars
       ELSE /\ h' = [h EXCEPT !.pc = "terminate", !.td = TerminateFlag(h.kind, "spawn")]
            /\ UNCHANGED cliVars

\* s.sessionManager.SetSessionProcess(session.ID, cmd, pid)
HandlerSetProcess ==
    /\ h.pc = "setproc"
    /\ SetSessionProcess(h.cur, TRUE, h.cur)
    /\ h' = [h EXCEPT !.pc = IF h.kind \in {"launch", "config"}
                             THEN "setclient" ELSE "connect"]

\* adapters.Connect(address, n)
HandlerConnect(ok) ==
    /\ h.pc = "connect"
    /\ IF ok
       THEN /\ h' = [h EXCEPT !.pc = "setclient"]
            /\ ConnectNewClient
       ELSE /\ h' = [h EXCEPT !.pc = "terminate",
                              !.td = TerminateFlag(h.kind, "connect")]
            /\ UNCHANGED cliVars

\* s.sessionManager.SetSessionClient(session.ID, client)
HandlerSetClient ==
    /\ h.pc = "setclient"
    /\ SetSessionClient(h.cur)
    /\ h' = [h EXCEPT !.pc = "proto", !.step = 1]

\* The handler enters the next client call of the protocol.
HandlerCall ==
    /\ h.pc = "proto"
    /\ Call(1, Steps(h.kind)[h.step])
    /\ h' = [h EXCEPT !.pc = "inproto"]

\* The client call has returned: on an error the handler terminates the
\* session; after the last call it marks the session running.
HandlerReturn ==
    /\ h.pc = "inproto"
    /\ th[1].pc = "done"
    /\ h' = IF th[1].res # "ok"
            THEN [h EXCEPT !.pc = "terminate",
                           !.td = TerminateFlag(h.kind, Steps(h.kind)[h.step])]
            ELSE [h EXCEPT !.log = Append(@, Steps(h.kind)[h.step]),
                           !.step = @ + 1,
                           !.pc = IF h.step = Len(Steps(h.kind))
                                  THEN "update" ELSE "proto"]

\* s.sessionManager.UpdateSessionStatus(session.ID, running); a compound goes
\* on to its next configuration.
HandlerUpdate ==
    /\ h.pc = "update"
    /\ UpdateSessionStatus(h.cur, "running")
    /\ h' = [h EXCEPT !.sessionIDs = Append(@, h.cur), !.todo = @ - 1,
                      !.pc = IF h.todo > 1 THEN "create"
                             ELSE IF h.kind = "compound" THEN "track" ELSE "returned",
                      !.res = IF h.todo > 1 \/ h.kind = "compound" THEN "none" ELSE "ok"]

\* handleDebugLaunchCompound, lines 1800-1802, and its successful return.
HandlerTrack(name) ==
    /\ h.pc = "track"
    /\ IF h.stopAll /\ Len(h.sessionIDs) > 0
       THEN TrackCompoundSession(name, h.sessionIDs, h.stopAll)
       ELSE UNCHANGED mgrVars
    /\ h' = [h EXCEPT !.pc = "returned", !.res = "ok"]

\* s.sessionManager.TerminateSession(session.ID, flag) after a failure ...
HandlerTerminate ==
    /\ h.pc = "terminate"
    /\ TerminateSession(h.cur, h.td)
    /\ h' = [h EXCEPT !.pc = "terminating"]

\* ... has returned (its result is not looked at).
HandlerTerminated ==
    /\ h.pc = "terminating"
    /\ op.kind = "idle"
    /\ h' = [h EXCEPT !.pc = "cleanup"]

\* The clean-up loop of handleDebugLaunchCompound over sessionIDs (empty in
\* the other handlers), then the error result.
HandlerCleanupMutSkip ==
    /\ h.pc = "cleanup"
    /\ h' = [h EXCEPT !.pc = "returned", !.res = "error"]
    /\ UNCHANGED mgrVars
HandlerCleanup ==
    /\ h.pc = "cleanup"
    /\ IF h.sessionIDs # <<>>
       THEN /\ TerminateSession(Head(h.sessionIDs), TRUE)
            /\ h' = [h EXCEPT !.sessionIDs = Tail(@), !.pc = "terminating"]
       ELSE /\ h' = [h EXCEPT !.pc = "returned", !.res = "error"]
            /\ UNCHANGED mgrVars

\* ------------------------------------------------------------- tool calls
\* registerTools: six tools in both modes, seven more in full mode.
BaseTools ==
    {"debug_launch", "debug_attach", "debug_disconnect", "debug_list_sessions",
     "debug_snapshot", "debug_evaluate"}

ControlTools ==
    {"debug_breakpoints", "debug_step", "debug_continue", "debug_pause",
     "debug_set_variable", "debug_run_to_line", "debug_execute_command"}

CanUseControlTools(c) == c.Mode = "full"

CanModifyVariablesMutModeOnly(c) == c.Mode = "full"
CanModifyVariables(c) == c.Mode = "full" /\ c.AllowModify

CanEvaluate(c) == c.AllowExecute

registerTools(c) ==
    BaseTools \cup (IF CanUseControlTools(c) THEN ControlTools ELSE {})

\* The tools whose handlers are modelled here.
ToolNames == ControlTools \cup {"debug_evaluate"}

MaxLine == 2

MaxExprs == 2

\* The expressions of a batch request and the arrays of them.
Exprs == {"x", "bogus!"}

ExprSeqs == UNION {[1..n -> Exprs] : n \in 0..MaxExprs}

Lines == 1..MaxLine

\* StoppedInfo.Reason
Reasons == {"breakpoint", "exception"}

\* handleDebugExecuteCommand, line 1425: the sessions it accepts.
NativeSession(lang) == lang = "c" \/ lang = "rust"

\* The values of the `type` parameter of debug_step the handler knows, and
\* the client call it makes for each.
StepCalls == [over |-> "next", into |-> "stepIn", out |-> "stepOut"]

\* The values requests carry: the three and one the handler does not know.
StepTypes == DOMAIN StepCalls \cup {"sideways"}

\* The first client call of a handler.  For execute_command arg = 1 says the
\* request carries a frameId; for debug_step arg is the `type` parameter.
FirstStep(name, arg) ==
    CASE name = "debug_breakpoints" -> "setBreakpoints"
      [] name = "debug_step" -> StepCalls[arg]
      [] name = "debug_continue" -> "continue"
      [] name = "debug_pause" -> "pause"
      [] name = "debug_set_variable" -> "setVariable"
      [] name = "debug_run_to_line" -> "setBreakpoints"
      [] name = "debug_execute_command" -> IF arg = 1 THEN "evaluate" ELSE "threads"
      [] OTHER -> "evaluate"

\* The status a handler passes to UpdateSessionStatus.
StatusAfter(name) == IF name = "debug_continue" THEN "running" ELSE "stopped"

ToolResult(res) == [tool EXCEPT !.pc = "returned", !.res = res]

ToolGoOn(step) == [tool EXCEPT !.pc = "call", !.step = step]

\* The tool protocol dispatches the call to the handler registered under the
\* name, if there is one.
ToolStart(name, id, arg) ==
    /\ tool.pc = "idle"
    /\ tool' = IF name \in registerTools(config)
               THEN [NoTool EXCEPT !.name = name, !.id = id, !.arg = arg,
                                   !.pc = "entry"]
               ELSE [NoTool EXCEPT !.name = name, !.id = id, !.arg = arg,
                                   !.pc = "returned", !.res = "tool not found"]

\* What the handler checks before its first client call: the permission, then
\* getSessionClient (GetSession under sm.mu, session.Client), then the language
\* (execute_command) or the step type (debug_step).
ToolRefusal ==
    IF tool.name = "debug_set_variable" /\ ~CanModifyVariables(config)
    THEN "variable modification is not allowed"
    ELSE IF tool.name = "debug_evaluate" /\ ~CanEvaluate(config)
    THEN "permission denied"
    ELSE IF tool.id \notin DOMAIN sessions
    THEN "session not found"
    ELSE IF ~sessions[tool.id].Client
    THEN "session has no active debug client"
    ELSE IF /\ tool.name = "debug_execute_command"
            /\ ~NativeSession(sessions[tool.id].Language)
    THEN "debug_execute_command only works with GDB/LLDB sessions"
    ELSE IF tool.name = "debug_step" /\ tool.arg \notin DOMAIN StepCalls
    THEN "invalid value for parameter 'type'"
    ELSE "nil"

\* debug_evaluate in batch mode ("expressions" is given): arg = 1 says the
\* request carries a frameId; tool.exprs is the parsed array.
ToolStartBatch(id, exprs, arg) ==
    /\ tool.pc = "idle"
    /\ tool' = [NoTool EXCEPT !.name = "debug_evaluate", !.id = id, !.arg = arg,
                              !.pc = "entry", !.batch = TRUE, !.exprs = exprs,
                              !.frameId = arg]

\* for i, expr := range expressions: the next Evaluate call, or the result
\* once every expression has its entry.
BatchLoopMutAbort(t) ==
    IF Len(t.results) = Len(t.exprs)
       \/ (t.results # <<>> /\ t.results[Len(t.results)].kind = "error")
    THEN [t EXCEPT !.pc = "returned", !.res = "ok"]
    ELSE [t EXCEPT !.pc = "call", !.step = "evaluate"]
BatchLoop(t) ==
    IF Len(t.results) = Len(t.exprs)
    THEN [t EXCEPT !.pc = "returned", !.res = "ok"]
    ELSE [t EXCEPT !.pc = "call", !.step = "evaluate"]

\* The entry of results for expression expr.
BatchEntry(expr, ok) ==
    [expression |-> expr, kind |-> IF ok THEN "result" ELSE "error"]

\* Batch mode after each client call: the frame look-up is best effort, each
\* Evaluate fills the entry of its expression.
BatchReturn(ok) ==
    CASE tool.step = "threads" ->
            \E n \in 0..1 :
               tool' = IF ok /\ n > 0 THEN ToolGoOn("stackTrace")
                       ELSE BatchLoop(tool)
      [] tool.step = "stackTrace" ->
            \E frames \in 0..1 :
               tool' = BatchLoop([tool EXCEPT !.frameId =
                                     IF ok /\ frames > 0 THEN 1 ELSE 0])
      [] OTHER ->
            tool' = BatchLoop([tool EXCEPT
                        !.results = Append(@, BatchEntry(
                                       tool.exprs[Len(tool.results) + 1], ok)),
                        !.outs = Append(@, th[2].res)])

ToolEntry ==
    /\ tool.pc = "entry"
    /\ op.kind = "idle"
    /\ tool' = IF ToolRefusal # "nil" THEN ToolResult(ToolRefusal)
               ELSE IF tool.batch
               THEN (IF tool.arg = 1 THEN BatchLoop(tool) ELSE ToolGoOn("threads"))
               ELSE ToolGoOn(FirstStep(tool.name, tool.arg))

\* The handler enters a client call (on caller thread 2).
ToolCall ==
    /\ tool.pc = "call"
    /\ Call(2, tool.step)
    /\ tool' = [tool EXCEPT !.pc = "incall", !.sent = Append(@, tool.step)]

\* debug_run_to_line on a file whose breakpoints in the adapter are `before`
\* (tool.bps is what the adapter holds for that file from then on).
ToolStartRunToLine(id, line, before) ==
    /\ tool.pc = "idle"
    /\ tool' = [NoTool EXCEPT !.name = "debug_run_to_line", !.id = id, !.arg = line,
                              !.pc = "entry", !.before = before, !.bps = before]

\* client.SetBreakpoints(source, []dap.SourceBreakpoint{{Line: int(line)}}):
\* the request carries the whole list for the source, which replaces what the
\* adapter held for it; the response reports n breakpoints, the first at l.
SetBreakpoints(n, l) == IF n = 0 THEN {} ELSE {l}

\* handleDebugRunToLine after each client call.  The bodies of the responses
\* are the adapter's: the breakpoints it reports, whether there is a thread,
\* the reason of the stop and the line the debuggee stopped at, which is the
\* line of the top frame of a later stackTrace response.
RunToLineReturn(ok) ==
    CASE tool.step = "setBreakpoints" ->
            IF ~ok THEN tool' = ToolResult("failed to set breakpoint")
            ELSE \E n \in 0..1, verified \in BOOLEAN, l \in Lines :
                    tool' = IF n = 0 \/ ~verified
                            THEN [ToolResult("could not set breakpoint at specified line")
                                     EXCEPT !.bps = SetBreakpoints(n, l)]
                            ELSE [ToolGoOn("threads") EXCEPT
                                     !.bp = l, !.bps = SetBreakpoints(n, l)]
      [] tool.step = "threads" ->
            IF ~ok THEN tool' = ToolResult("failed to get threads")
            ELSE \E n \in 0..1 :
                    tool' = IF n = 0 THEN ToolResult("no threads")
                            ELSE ToolGoOn("ContinueAndWait")
      [] tool.step = "ContinueAndWait" ->
            IF ~ok THEN tool' = ToolResult("run to line failed")
            ELSE \E r \in Reasons, l \in Lines :
                    tool' = [tool EXCEPT !.pc = "update", !.reason = r, !.at = l]
      [] tool.step = "stackTrace" ->
            \E frames \in 0..1 :
               tool' = IF ok /\ frames > 0
                       THEN [ToolGoOn("scopes") EXCEPT !.top = tool.at]
                       ELSE ToolResult("ok")
      [] tool.step = "scopes" ->
            \E locals \in BOOLEAN :
               tool' = IF ok /\ locals THEN ToolGoOn("variables")
                       ELSE ToolResult("ok")
      [] OTHER -> tool' = ToolResult("ok")

\* handleDebugExecuteCommand after each client call: the frame look-up is
\* best effort, the evaluate request decides the result.
ExecuteCommandReturn(ok) ==
    CASE tool.step = "threads" ->
            \E n \in 0..1 :
               tool' = IF ok /\ n > 0 THEN ToolGoOn("stackTrace")
                       ELSE ToolGoOn("evaluate")
      [] tool.step = "stackTrace" -> tool' = ToolGoOn("evaluate")
      [] OTHER -> tool' = ToolResult(IF ok THEN "ok" ELSE "command execution failed")

\* The client call has returned.
ToolReturn ==
    /\ tool.pc = "incall"
    /\ th[2].pc = "done"
    /\ LET ok == th[2].res \in {"ok", "stopped"} IN
       CASE tool.batch -> BatchReturn(ok)
         [] tool.name = "debug_run_to_line" -> RunToLineReturn(ok)
         [] tool.name = "debug_execute_command" -> ExecuteCommandReturn(ok)
         [] tool.name \in {"debug_continue", "debug_pause"} ->
               tool' = IF ok THEN [tool EXCEPT !.pc = "update"]
                       ELSE ToolResult("error")
         [] OTHER -> tool' = ToolResult(IF ok THEN "ok" ELSE "error")

\* Snapshot of handleDebugRunToLine, lines 1305-1311.
Snapshot == [stoppedAt |-> tool.bp, reason |-> tool.reason]

\* s.sessionManager.UpdateSessionStatus(session.ID, status); continue and
\* pause return, run_to_line builds its snapshot and asks for the stack.
ToolUpdate ==
    /\ tool.pc = "update"
    /\ UpdateSessionStatus(tool.id, StatusAfter(tool.name))
    /\ tool' = IF tool.name = "debug_run_to_line"
               THEN [ToolGoOn("stackTrace") EXCEPT !.snapshot = Snapshot]
               ELSE ToolResult("ok")

\* ---------------------------------------------------------- launchconfig
\* A string is the sequence of its segments: plain text, or a ${input:id}
\* occurrence (what variablePattern matches, with the expression input:id).
\* "" is <<>>.
Text(x) == [kind |-> "text", id |-> x]

Input(x) == [kind |-> "input", id |-> x]

InputIds == {"port", "host"}

Segments == {Text("a")} \cup {Input(id) : id \in InputIds}

MaxSegs == 2

Strings == UNION {[1..n -> Segments] : n \in 0..MaxSegs}

ShortStrings == UNION {[1..n -> Segments] : n \in 0..1}

\* The keys of a configuration object that are modelled, in the byte order
\* json.Marshal writes the keys of a map in.  "webroot" and "foo" are not
\* fields of DebugConfiguration; "HOME" is a key of env.
AllKeys ==
    <<"HOME", "args", "cwd", "env", "foo", "name", "program", "python",
      "stopOnEntry", "url", "webRoot", "webroot">>

SortedKeys(S) == SelectSeq(AllKeys, LAMBDA k : k \in S)

\* DebugConfiguration, with these fields of it.
EmptyConfiguration ==
    [name |-> <<>>, program |-> <<>>, args |-> <<>>, cwd |-> <<>>, env |-> <<>>,
     stopOnEntry |-> FALSE, url |-> <<>>, webRoot |-> <<>>, python |-> <<>>,
     extra |-> <<>>]

Values(f) == {f[k] : k \in DOMAIN f}

\* append the ids that have not been seen
RECURSIVE AddIds(_, _)
AddIds(inputs, ids) ==
    IF ids = <<>> THEN inputs
    ELSE AddIds(IF Head(ids) \in Range(inputs) THEN inputs
                ELSE Append(inputs, Head(ids)), Tail(ids))

RECURSIVE InputsOf(_)
InputsOf(text) ==
    IF text = <<>> THEN <<>>
    ELSE (IF Head(text).kind = "input" THEN <<Head(text).id>> ELSE <<>>)
         \o InputsOf(Tail(text))

FindRequiredInputs(text) == AddIds(<<>>, InputsOf(text))

RECURSIVE AddAll(_, _)
AddAll(inputs, texts) ==
    IF texts = <<>> THEN inputs
    ELSE AddAll(AddIds(inputs, FindRequiredInputs(Head(texts))), Tail(texts))

\* The strings FindAllRequiredInputsInConfig passes to addInputs, in its
\* order: the string fields it names, the arrays, the JSON text of Extra.
ScannedTexts(cfg) ==
    <<cfg.program, cfg.cwd, cfg.webRoot, cfg.url>> \o cfg.args
    \o [i \in 1..Len(SortedKeys(DOMAIN cfg.env)) |->
           cfg.env[SortedKeys(DOMAIN cfg.env)[i]]]
    \o [i \in 1..Len(SortedKeys(DOMAIN cfg.extra)) |->
           cfg.extra[SortedKeys(DOMAIN cfg.extra)[i]]]

FindAllRequiredInputsInConfig(cfg) == AddAll(<<>>, ScannedTexts(cfg))

ValidateInputsProvided(cfg, inputValues) ==
    SelectSeq(FindAllRequiredInputsInConfig(cfg), LAMBDA id : id \notin inputValues)

\* ResolveVariables: an ${input:id} with a value becomes the value, one
\* without stays as it is and makes the error.
ResolveVariables(text, inputValues) ==
    [text |-> [i \in 1..Len(text) |->
                 IF text[i].kind = "input" /\ text[i].id \in inputValues
                 THEN Text(text[i].id) ELSE text[i]],
     err |-> \E i \in 1..Len(text) :
                text[i].kind = "input" /\ text[i].id \notin inputValues]

\* The fields ResolveConfiguration resolves, in its order, and the strings of
\* each.
ResolvedFields ==
    <<"program", "cwd", "webRoot", "url", "python", "args", "env", "extra">>

TextsOf(cfg, f) ==
    CASE f = "args" -> Range(cfg.args)
      [] f \in {"env", "extra"} -> Values(cfg[f])
      [] OTHER -> {cfg[f]}

ResolveField(cfg, f, inputValues) ==
    CASE f = "args" ->
            [i \in 1..Len(cfg.args) |-> ResolveVariables(cfg.args[i], inputValues).text]
      [] f \in {"env", "extra"} ->
            [k \in DOMAIN cfg[f] |-> ResolveVariables(cfg[f][k], inputValues).text]
      [] OTHER -> ResolveVariables(cfg[f], inputValues).text

FieldFails(cfg, f, inputValues) ==
    \E t \in TextsOf(cfg, f) : ResolveVariables(t, inputValues).err

\* ResolveConfiguration: the result, the error, the ids of a
\* MissingInputsError, and the fields that had been expanded when it returned.
RECURSIVE ResolveFrom(_, _, _, _)
ResolveFrom(cfg, resolved, n, inputValues) ==
    IF n > Len(ResolvedFields)
    THEN [err |-> "nil", inputs |-> <<>>, cfg |-> resolved,
          expanded |-> Range(ResolvedFields)]
    ELSE IF FieldFails(cfg, ResolvedFields[n], inputValues)
    THEN [err |-> "failed to resolve", inputs |-> <<>>, cfg |-> EmptyConfiguration,
          expanded |-> {ResolvedFields[i] : i \in 1..(n - 1)}]
    ELSE ResolveFrom(cfg,
                     [resolved EXCEPT ![ResolvedFields[n]] =
                         ResolveField(cfg, ResolvedFields[n], inputValues)],
                     n + 1, inputValues)

ResolveConfiguration(cfg, inputValues) ==
    IF ValidateInputsProvided(cfg, inputValues) # <<>>
    THEN [err |-> "MissingInputsError",
          inputs |-> ValidateInputsProvided(cfg, inputValues),
          cfg |-> EmptyConfiguration, expanded |-> {}]
    ELSE ResolveFrom(cfg,
                     [EmptyConfiguration EXCEPT !.name = cfg.name,
                                                !.stopOnEntry = cfg.stopOnEntry],
                     1, inputValues)

\* The configurations and contexts ResolveConfiguration is called with.
ResolveConfigs ==
    {[EmptyConfiguration EXCEPT !.name = <<Text("a")>>, !.program = p,
                                !.python = y, !.args = a, !.extra = e] :
        p \in Strings, y \in ShortStrings,
        a \in {<<>>} \cup {<<t>> : t \in Strings},
        e \in {<<>>} \cup {[k \in {"foo"} |-> t] : t \in ShortStrings}}

\* A JSON value is the sequence of its tokens.  A string is the sequence of
\* its segments; true and false are one token; an array is the array token and
\* then each element followed by the end token; an object is the object token
\* and then, for each member in the order of the keys, the key token, the
\* value and the end token.  Elements and member values are scalars.
ArrayToken == [kind |-> "array", id |-> ""]

ObjectToken == [kind |-> "object", id |-> ""]

EndToken == [kind |-> "end", id |-> ""]

KeyToken(k) == [kind |-> "key", id |-> k]

Bool(b) == <<[kind |-> "bool", id |-> IF b THEN "true" ELSE "false"]>>

IsString(v) == \A i \in 1..Len(v) : v[i].kind \in {"text", "input"}

IsBool(v) == Len(v) = 1 /\ v[1].kind = "bool"

IsArray(v) == v # <<>> /\ v[1].kind = "array"

IsObject(v) == v # <<>> /\ v[1].kind = "object"

RECURSIVE Flatten(_)
Flatten(parts) ==
    IF parts = <<>> THEN <<>>
    ELSE Head(parts) \o <<EndToken>> \o Flatten(Tail(parts))

RECURSIVE Split(_, _)
Split(tokens, cur) ==
    IF tokens = <<>> THEN <<>>
    ELSE IF Head(tokens) = EndToken
    THEN <<cur>> \o Split(Tail(tokens), <<>>)
    ELSE Split(Tail(tokens), Append(cur, Head(tokens)))

\* The array of these values, and the elements of an array.
Array(items) == <<ArrayToken>> \o Flatten(items)

Elements(v) == Split(Tail(v), <<>>)

\* The object of a map from keys to values, and the map of an object.
Object(m) ==
    <<ObjectToken>>
    \o Flatten([i \in 1..Len(SortedKeys(DOMAIN m)) |->
                   <<KeyToken(SortedKeys(DOMAIN m)[i])>>
                   \o m[SortedKeys(DOMAIN m)[i]]])

MapOf(v) ==
    [k \in {Head(Elements(v)[i]).id : i \in 1..Len(Elements(v))} |->
        Tail(CHOOSE e \in Range(Elements(v)) : Head(e).id = k)]

\* A JSON document is the sequence of its members, in document order.  The
\* values of the documents that are loaded are strings.
JSONValues == {<<>>, <<Text("a")>>, <<Text("b")>>}

DocKeys == {"name", "program", "webRoot", "webroot", "foo"}

MaxMembers == 3

Member(k, v) == [key |-> k, val |-> v]

Docs ==
    UNION {{d \in [1..n -> {Member(k, v) : k \in DocKeys, v \in JSONValues}] :
               \A i, j \in 1..n : i # j => d[i].key # d[j].key} :
           n \in 0..MaxMembers}

\* knownFields of UnmarshalJSON: the json names of the fields.
KnownFields ==
    {"name", "program", "args", "cwd", "env", "stopOnEntry", "url", "webRoot",
     "python"}

\* The field encoding/json decodes a member into: the field with that json
\* name, else the field whose name matches when case is ignored.
FieldOf(key) ==
    IF key \in KnownFields THEN key
    ELSE IF key = "webroot" THEN "webRoot"
    ELSE "none"

\* Whether the JSON value v decodes into the field f: a string into a string
\* field, an array of strings into Args, an object of strings into Env, true
\* or false into StopOnEntry.
Fits(f, v) ==
    CASE f = "args" -> IsArray(v) /\ \A e \in Range(Elements(v)) : IsString(e)
      [] f = "env" -> IsObject(v) /\ \A k \in DOMAIN MapOf(v) : IsString(MapOf(v)[k])
      [] f = "stopOnEntry" -> IsBool(v)
      [] OTHER -> IsString(v)

\* The Go value of the field f that the JSON value v decodes to.
Decoded(f, v) ==
    CASE f = "args" -> Elements(v)
      [] f = "env" -> MapOf(v)
      [] f = "stopOnEntry" -> v[1].id = "true"
      [] OTHER -> v

\* json.Unmarshal(data, &alias): the members set their fields one after the
\* other, in document order.
RECURSIVE DecodeAlias(_, _)
DecodeAlias(c, doc) ==
    IF doc = <<>> THEN c
    ELSE DecodeAlias(IF FieldOf(Head(doc).key) = "none" THEN c
                     ELSE [c EXCEPT ![FieldOf(Head(doc).key)] =
                              Decoded(FieldOf(Head(doc).key), Head(doc).val)],
                     Tail(doc))

\* json.Unmarshal(data, &alias) returns an UnmarshalTypeError: a member of a
\* field has a value of another type.
DecodeFails(doc) ==
    \E i \in 1..Len(doc) :
        /\ FieldOf(doc[i].key) # "none"
        /\ ~Fits(FieldOf(doc[i].key), doc[i].val)

\* json.Unmarshal(data, &raw): the members by key.
RawOf(doc) ==
    [k \in {doc[i].key : i \in 1..Len(doc)} |->
        (CHOOSE m \in Range(doc) : m.key = k).val]

\* DebugConfiguration.UnmarshalJSON into a zero DebugConfiguration: with an
\* error of the alias it returns before *c is assigned.
UnmarshalJSON(doc) ==
    IF DecodeFails(doc) THEN EmptyConfiguration
    ELSE [DecodeAlias(EmptyConfiguration, doc) EXCEPT
             !.extra = [k \in DOMAIN RawOf(doc) \ KnownFields |-> RawOf(doc)[k]]]

\* json.Marshal(alias): the fields in the order of the struct, the empty ones
\* with omitempty left out ("name" has no omitempty).
AliasMembers(c) ==
    <<Member("name", c.name)>>
    \o (IF c.program = <<>> THEN <<>> ELSE <<Member("program", c.program)>>)
    \o (IF c.args = <<>> THEN <<>> ELSE <<Member("args", Array(c.args))>>)
    \o (IF c.cwd = <<>> THEN <<>> ELSE <<Member("cwd", c.cwd)>>)
    \o (IF DOMAIN c.env = {} THEN <<>> ELSE <<Member("env", Object(c.env))>>)
    \o (IF c.stopOnEntry THEN <<Member("stopOnEntry", Bool(TRUE))>> ELSE <<>>)
    \o (IF c.url = <<>> THEN <<>> ELSE <<Member("url", c.url)>>)
    \o (IF c.webRoot = <<>> THEN <<>> ELSE <<Member("webRoot", c.webRoot)>>)
    \o (IF c.python = <<>> THEN <<>> ELSE <<Member("python", c.python)>>)

\* DebugConfiguration.MarshalJSON: with extra fields, the known fields and the
\* extra ones go through one map (an extra field wins), which json.Marshal
\* writes with its keys sorted.
MarshalJSON(c) ==
    IF DOMAIN c.extra = {} THEN AliasMembers(c)
    ELSE LET m == [k \in DOMAIN RawOf(AliasMembers(c)) \cup DOMAIN c.extra |->
                     IF k \in DOMAIN c.extra THEN c.extra[k]
                     ELSE RawOf(AliasMembers(c))[k]]
             keys == SortedKeys(DOMAIN m)
         IN  [i \in 1..Len(keys) |-> Member(keys[i], m[keys[i]])]

\* DebugConfiguration.Clone
Clone(c) == UnmarshalJSON(MarshalJSON(c))

\* The overrides of a tool call: a map from keys to JSON values.
OverrideKeys == {"program", "args", "python", "foo"}

OverrideValues == {<<Text("a")>>, Array(<<<<Text("a")>>, <<Text("b")>>>>)}

OverrideMaps ==
    UNION {[K -> OverrideValues] : K \in SUBSET OverrideKeys}

\* The keys with a case of their own in the switch of MergeOverrides.
SwitchKeys == {"program", "args", "cwd", "env", "stopOnEntry", "webRoot", "url"}

\* MergeOverrides, the loop over the overrides applied to result.  A key of
\* the switch sets its field when the value has the field's type and does
\* nothing otherwise: a string for program, cwd, webRoot and url; an array
\* for args, whose elements that are no strings become ""; an object for env,
\* whose members that are no strings are left out; true or false for
\* stopOnEntry.  Every other key goes to Extra.
ApplyOverrides(result, overrides) ==
    LET Has(k, Is(_)) == k \in DOMAIN overrides /\ Is(overrides[k])
        String(k, old) == IF Has(k, IsString) THEN overrides[k] ELSE old
    IN  [result EXCEPT
            !.program = String("program", @),
            !.args = IF Has("args", IsArray)
                     THEN [i \in 1..Len(Elements(overrides["args"])) |->
                             IF IsString(Elements(overrides["args"])[i])
                             THEN Elements(overrides["args"])[i] ELSE <<>>]
                     ELSE @,
            !.cwd = String("cwd", @),
            !.env = IF Has("env", IsObject)
                    THEN [k \in {x \in DOMAIN MapOf(overrides["env"]) :
                                    IsString(MapOf(overrides["env"])[x])} |->
                            MapOf(overrides["env"])[k]]
                    ELSE @,
            !.stopOnEntry = IF Has("stopOnEntry", IsBool)
                            THEN overrides["stopOnEntry"][1].id = "true" ELSE @,
            !.webRoot = String("webRoot", @),
            !.url = String("url", @),
            !.extra = [k \in DOMAIN @ \cup (DOMAIN overrides \ SwitchKeys) |->
                          IF k \in DOMAIN overrides THEN overrides[k] ELSE @[k]]]

\* MergeOverrides(cfg, overrides) on the heap of configuration objects: cfg
\* points to heap.cfg; the result is the pointer it returns and the heap.
MergeOverrides(heap, overrides) ==
    IF DOMAIN overrides = {}
    THEN [ret |-> "cfg", heap |-> heap]
    ELSE [ret |-> "result",
          heap |-> [heap EXCEPT !.result = ApplyOverrides(Clone(heap.cfg), overrides)]]

\* ----------------------------------------------------------- specifications
vars == <<mgrVars, cliVars, h, srvVars>>

\* The session manager under every interleaving of its callers, the timeout
\* sweep and Close.
Init ==
    /\ NewSessionManager(MaxSessions) /\ NewClient /\ h = NoHandler
    /\ NewServer(DefaultConfig)

Next ==
    \/ CreateSession(RequestLanguage)
       /\ UNCHANGED notMgr
    \/ \E id \in Issued : SetSessionClient(id)
       /\ UNCHANGED notMgr
    \/ \E id \in Issued : \E pid \in {0, id} : SetSessionProcess(id, TRUE, pid)
       /\ UNCHANGED notMgr
    \/ \E n \in CompoundNames, ids \in Launched :
           TrackCompoundSession(n, ids, TRUE)
       /\ UNCHANGED notMgr
    \/ \E id \in Issued, td \in BOOLEAN : TerminateSession(id, td)
       /\ UNCHANGED notMgr
    \/ TerminatePeers
       /\ UNCHANGED notMgr
    \/ DisconnectClient
       /\ UNCHANGED notMgr
    \/ KillProcess
       /\ UNCHANGED notMgr
    \/ DeleteSession
       /\ UNCHANGED notMgr
    \/ cleanupExpiredSessions
       /\ UNCHANGED notMgr
    \/ CloseCancel
       /\ UNCHANGED notMgr
    \/ Close
       /\ UNCHANGED notMgr
    \/ RangeSessions
       /\ UNCHANGED notMgr
    \/ Tick
       /\ UNCHANGED notMgr

Spec == Init /\ [][Next]_vars

\* One client with two caller threads, its reader loop, its adapter, and a
\* Close call.  A caller sends a request and waits for the answer, or sends an
\* asynchronous launch and then waits for the launch response.
ClientOps == {"threads", "LaunchAsync"}

NextClient ==
    \/ \E t \in Callers, o \in ClientOps : th[t].pc = "idle" /\ Call(t, o)
       /\ UNCHANGED notCli
    \/ \E t \in Callers :
          th[t].op = "LaunchAsync" /\ th[t].res = "ok" /\ Call(t, "WaitForLaunchResponse")
       /\ UNCHANGED notCli
    \/ \E t \in Callers : NextSeq(t)
       /\ UNCHANGED notCli
    \/ \E t \in Callers : InsertSlot(t)
       /\ UNCHANGED notCli
    \/ \E t \in Callers : SendRequest(t)
       /\ UNCHANGED notCli
    \/ \E t \in Callers : SendFailed(t)
       /\ UNCHANGED notCli
    \/ \E t \in Callers : RecvResponse(t)
       /\ UNCHANGED notCli
    \/ \E t \in Callers : RequestTimeout(t)
       /\ UNCHANGED notCli
    \/ \E t \in Callers : TimeoutCleanup(t)
       /\ UNCHANGED notCli
    \/ \E t \in Callers : RequestCancelled(t)
       /\ UNCHANGED notCli
    \/ \E t \in Callers : LaunchResponse(t)
       /\ UNCHANGED notCli
    \/ \E t \in Callers : LaunchTimeout(t)
       /\ UNCHANGED notCli
    \/ \E t \in Callers : LaunchCancelled(t)
       /\ UNCHANGED notCli
    \/ ReaderLoop
       /\ UNCHANGED notCli
    \/ ReaderReceive
       /\ UNCHANGED notCli
    \/ ReaderError
       /\ UNCHANGED notCli
    \/ ClientCancel
       /\ UNCHANGED notCli
    \/ ClientWgWait
       /\ UNCHANGED notCli
    \/ \E r \in adapter.reqs, ok \in BOOLEAN : AdapterRespond(r, ok)
       /\ UNCHANGED notCli
    \/ AdapterExit
       /\ UNCHANGED notCli

SpecClient == Init /\ [][NextClient]_vars

\* The reader loop alone against an adapter that sends events and frames that
\* do not decode, in any order, and may exit; the client may be closed.
NextReader ==
    \/ ReaderLoop
       /\ UNCHANGED notCli
    \/ ReaderReceive
       /\ UNCHANGED notCli
    \/ ReaderError
       /\ UNCHANGED notCli
    \/ AdapterEvent
       /\ UNCHANGED notCli
    \/ AdapterMalformed
       /\ UNCHANGED notCli
    \/ AdapterExit
       /\ UNCHANGED notCli
    \/ ClientCancel
       /\ UNCHANGED notCli
    \/ ClientWgWait
       /\ UNCHANGED notCli

SpecReader == Init /\ [][NextReader]_vars

\* The initialized latch: each caller sends initialize at most once and waits
\* for the initialized event any number of times, before and after it
\* arrives; the adapter may send the event twice; the client may be closed
\* meanwhile.
NextLatch ==
    \/ \E t \in Callers : th[t].pc = "idle" /\ Call(t, "initialize")
       /\ UNCHANGED notCli
    \/ \E t \in Callers : Call(t, "WaitInitialized")
       /\ UNCHANGED notCli
    \/ \E t \in Callers : NextSeq(t)
       /\ UNCHANGED notCli
    \/ \E t \in Callers : InsertSlot(t)
       /\ UNCHANGED notCli
    \/ \E t \in Callers : SendRequest(t)
       /\ UNCHANGED notCli
    \/ \E t \in Callers : SendFailed(t)
       /\ UNCHANGED notCli
    \/ \E t \in Callers : RecvResponse(t)
       /\ UNCHANGED notCli
    \/ \E t \in Callers : RequestTimeout(t)
       /\ UNCHANGED notCli
    \/ \E t \in Callers : TimeoutCleanup(t)
       /\ UNCHANGED notCli
    \/ \E t \in Callers : RequestCancelled(t)
       /\ UNCHANGED notCli
    \/ \E t \in Callers : WaitInitialized(t)
       /\ UNCHANGED notCli
    \/ ReaderLoop
       /\ UNCHANGED notCli
    \/ ReaderReceive
       /\ UNCHANGED notCli
    \/ ClientCancel
       /\ UNCHANGED notCli
    \/ ClientWgWait
       /\ UNCHANGED notCli
    \/ \E r \in adapter.reqs, ok \in BOOLEAN : AdapterRespond(r, ok)
       /\ UNCHANGED notCli
    \/ AdapterInitialized
       /\ UNCHANGED notCli
    \/ AdapterInitializedAgain
       /\ UNCHANGED notCli

SpecLatch == Init /\ [][NextLatch]_vars

\* One client on which caller 1 runs ContinueAndWait while caller 2 sends an
\* ordinary request; the adapter answers, reports the stop that follows the
\* continue, or goes away.
NextWait ==
    \/ th[1].pc = "idle" /\ Call(1, "ContinueAndWait")
       /\ UNCHANGED notCli
    \/ th[2].pc = "idle" /\ Call(2, "threads")
       /\ UNCHANGED notCli
    \/ ArmStopped(1)
       /\ UNCHANGED notCli
    \/ \E t \in Callers : NextSeq(t)
       /\ UNCHANGED notCli
    \/ \E t \in Callers : InsertSlot(t)
       /\ UNCHANGED notCli
    \/ \E t \in Callers : SendRequest(t)
       /\ UNCHANGED notCli
    \/ \E t \in Callers : SendFailed(t)
       /\ UNCHANGED notCli
    \/ \E t \in Callers : RecvResponse(t)
       /\ UNCHANGED notCli
    \/ \E t \in Callers : RequestTimeout(t)
       /\ UNCHANGED notCli
    \/ \E t \in Callers : TimeoutCleanup(t)
       /\ UNCHANGED notCli
    \/ StoppedReceived(1)
       /\ UNCHANGED notCli
    \/ StoppedTimeout(1)
       /\ UNCHANGED notCli
    \/ DisarmStopped(1)
       /\ UNCHANGED notCli
    \/ ReaderLoop
       /\ UNCHANGED notCli
    \/ ReaderReceive
       /\ UNCHANGED notCli
    \/ ReaderError
       /\ UNCHANGED notCli
    \/ \E r \in adapter.reqs, ok \in BOOLEAN : AdapterRespond(r, ok)
       /\ UNCHANGED notCli
    \/ \E n \in adapter.stops : AdapterStopped(n)
       /\ UNCHANGED notCli
    \/ AdapterExit
       /\ UNCHANGED notCli

SpecWait == Init /\ [][NextWait]_vars

\* Two calls on one client, each in ContinueAndWait (debug_run_to_line) or in
\* WaitForStopped.
NextWaiters ==
    \/ \E t \in Callers, o \in {"ContinueAndWait", "WaitForStopped"} :
          th[t].pc = "idle" /\ Call(t, o)
       /\ UNCHANGED notCli
    \/ \E t \in Callers : ArmStopped(t)
       /\ UNCHANGED notCli
    \/ \E t \in Callers : NextSeq(t)
       /\ UNCHANGED notCli
    \/ \E t \in Callers : InsertSlot(t)
       /\ UNCHANGED notCli
    \/ \E t \in Callers : SendRequest(t)
       /\ UNCHANGED notCli
    \/ \E t \in Callers : RecvResponse(t)
       /\ UNCHANGED notCli
    \/ \E t \in Callers : RequestTimeout(t)
       /\ UNCHANGED notCli
    \/ \E t \in Callers : TimeoutCleanup(t)
       /\ UNCHANGED notCli
    \/ \E t \in Callers : StoppedReceived(t)
       /\ UNCHANGED notCli
    \/ \E t \in Callers : StoppedTimeout(t)
       /\ UNCHANGED notCli
    \/ \E t \in Callers : DisarmStopped(t)
       /\ UNCHANGED notCli
    \/ ReaderLoop
       /\ UNCHANGED notCli
    \/ ReaderReceive
       /\ UNCHANGED notCli
    \/ \E r \in adapter.reqs, ok \in BOOLEAN : AdapterRespond(r, ok)
       /\ UNCHANGED notCli
    \/ \E n \in adapter.stops : AdapterStopped(n)
       /\ UNCHANGED notCli

SpecWaiters == Init /\ [][NextWaiters]_vars

\* debug_step and then debug_run_to_line on one session: Next (StepIn,
\* StepOut) returns with the response to the step request, the stopped event of the step comes when
\* the step is complete; ContinueAndWait follows on the same client.
NextStale ==
    \/ \E type \in DOMAIN StepCalls : th[1].pc = "idle" /\ Call(1, StepCalls[type])
       /\ UNCHANGED notCli
    \/ th[1].op \in {StepCalls[k] : k \in DOMAIN StepCalls} /\ th[1].res = "ok" /\ Call(1, "ContinueAndWait")
       /\ UNCHANGED notCli
    \/ ArmStopped(1)
       /\ UNCHANGED notCli
    \/ NextSeq(1)
       /\ UNCHANGED notCli
    \/ InsertSlot(1)
       /\ UNCHANGED notCli
    \/ SendRequest(1)
       /\ UNCHANGED notCli
    \/ RecvResponse(1)
       /\ UNCHANGED notCli
    \/ RequestTimeout(1)
       /\ UNCHANGED notCli
    \/ TimeoutCleanup(1)
       /\ UNCHANGED notCli
    \/ StoppedReceived(1)
       /\ UNCHANGED notCli
    \/ StoppedTimeout(1)
       /\ UNCHANGED notCli
    \/ DisarmStopped(1)
       /\ UNCHANGED notCli
    \/ ReaderLoop
       /\ UNCHANGED notCli
    \/ ReaderReceive
       /\ UNCHANGED notCli
    \/ \E r \in adapter.reqs, ok \in BOOLEAN : AdapterRespond(r, ok)
       /\ UNCHANGED notCli
    \/ \E n \in adapter.stops : AdapterStopped(n)
       /\ UNCHANGED notCli

SpecStale == Init /\ [][NextStale]_vars

\* TerminateSession on a session that has a client and a spawned adapter:
\* session.Client.Disconnect runs sendRequest on the manager's thread (caller
\* 1), session.Client.Close follows, then the kill and the delete.  Caller 2
\* is a tool call using the same client.
TermSession ==
    [Language |-> "go", Status |-> "initializing", Client |-> TRUE, Process |-> TRUE, PID |-> 1,
     CreatedAt |-> 0]

InitTerm ==
    /\ sessions = [id \in {1} |-> TermSession]
    /\ compoundSessions = [n \in {} |-> 0]
    /\ sessionToCompound = <<>>
    /\ nextId = 2
    /\ now = 0
    /\ cancelled = FALSE
    /\ op = Idle
    /\ tracked = {}
    /\ last = NoCall
    /\ NewClient
    /\ h = NoHandler
    /\ maxSessions = MaxSessions
    /\ NewServer(DefaultConfig)

\* session.Client.Disconnect(flag) is entered (session.go line 175 or 201),
\* on the thread t that called the manager.
DisconnectStart(t) ==
    /\ op.kind # "idle" /\ op.phase = "disc"
    /\ sessions[op.cur].Client
    /\ Call(t, "disconnect")
    /\ op' = [op EXCEPT !.phase = "disconnecting", !.sent = DisconnectFlag]
    /\ last' = NoCall
    /\ UNCHANGED <<sessions, compoundSessions, sessionToCompound, nextId, now,
                   cancelled, tracked>>

\* Disconnect has returned (its error is only logged); session.Client.Close()
\* is entered and cancels c.ctx.
CloseStart(t) ==
    /\ op.phase = "disconnecting"
    /\ th[t].op = "disconnect" /\ th[t].pc = "done"
    /\ ClientCancel
    /\ op' = [op EXCEPT !.phase = "closing"]
    /\ last' = NoCall
    /\ UNCHANGED <<sessions, compoundSessions, sessionToCompound, nextId, now,
                   cancelled, tracked>>

\* c.wg.Wait() returns once readLoop has returned; c.transport.Close(); the
\* manager goes on to killProcessGroup.
CloseReturn ==
    /\ op.phase = "closing"
    /\ ClientWgWait
    /\ op' = [op EXCEPT !.phase = "kill"]
    /\ last' = NoCall
    /\ UNCHANGED <<sessions, compoundSessions, sessionToCompound, nextId, now,
                   cancelled, tracked>>

\* The steps of the server's own threads ...
ProgramStep ==
    \/ \E td \in BOOLEAN : TerminateSession(1, td)
       /\ UNCHANGED notMgr
    \/ TerminatePeers
       /\ UNCHANGED notMgr
    \/ DisconnectStart(1)
       /\ UNCHANGED h /\ UNCHANGED srvVars
    \/ CloseStart(1)
       /\ UNCHANGED h /\ UNCHANGED srvVars
    \/ CloseReturn
       /\ UNCHANGED h /\ UNCHANGED srvVars
    \/ KillProcess
       /\ UNCHANGED notMgr
    \/ DeleteSession
       /\ UNCHANGED notMgr
    \/ th[2].pc = "idle" /\ Call(2, "threads")
       /\ UNCHANGED notCli
    \/ \E t \in Callers : NextSeq(t)
       /\ UNCHANGED notCli
    \/ \E t \in Callers : InsertSlot(t)
       /\ UNCHANGED notCli
    \/ \E t \in Callers : SendRequest(t)
       /\ UNCHANGED notCli
    \/ \E t \in Callers : SendFailed(t)
       /\ UNCHANGED notCli
    \/ \E t \in Callers : RecvResponse(t)
       /\ UNCHANGED notCli
    \/ \E t \in Callers : RequestTimeout(t)
       /\ UNCHANGED notCli
    \/ \E t \in Callers : TimeoutCleanup(t)
       /\ UNCHANGED notCli
    \/ \E t \in Callers : RequestCancelled(t)
       /\ UNCHANGED notCli
    \/ ReaderLoop
       /\ UNCHANGED notCli
    \/ ReaderReceive
       /\ UNCHANGED notCli
    \/ ReaderError
       /\ UNCHANGED notCli

\* ... and the steps of the adapter, which it may or may not take.
AdapterStep ==
    \/ \E r \in adapter.reqs, ok \in BOOLEAN : AdapterRespond(r, ok)
       /\ UNCHANGED notCli
    \/ AdapterExit
       /\ UNCHANGED notCli

NextTerm == ProgramStep \/ AdapterStep

\* Every thread of the server keeps running; nothing is assumed of the adapter.
SpecTerm == InitTerm /\ [][NextTerm]_vars /\ WF_vars(ProgramStep)

\* Tool calls that launch or attach, one after the other, each against the
\* adapter it spawns or connects to.
NextLaunch ==
    \/ \E kind \in HandlerKinds \ {"compound"} : HandlerStart(kind, 1, FALSE)
       /\ UNCHANGED <<mgrVars, cliVars>> /\ UNCHANGED srvVars
    \/ \E n \in 1..MaxConfigs, stopAll \in BOOLEAN : HandlerStart("compound", n, stopAll)
       /\ UNCHANGED <<mgrVars, cliVars>> /\ UNCHANGED srvVars
    \/ HandlerConfigFails
       /\ UNCHANGED <<mgrVars, cliVars>> /\ UNCHANGED srvVars
    \/ HandlerCreate
       /\ UNCHANGED cliVars /\ UNCHANGED srvVars
    \/ \E ok \in BOOLEAN : HandlerSpawn(ok)
       /\ UNCHANGED mgrVars /\ UNCHANGED srvVars
    \/ HandlerSetProcess
       /\ UNCHANGED cliVars /\ UNCHANGED srvVars
    \/ \E ok \in BOOLEAN : HandlerConnect(ok)
       /\ UNCHANGED mgrVars /\ UNCHANGED srvVars
    \/ HandlerSetClient
       /\ UNCHANGED cliVars /\ UNCHANGED srvVars
    \/ HandlerCall
       /\ UNCHANGED mgrVars /\ UNCHANGED srvVars
    \/ HandlerReturn
       /\ UNCHANGED <<mgrVars, cliVars>> /\ UNCHANGED srvVars
    \/ HandlerUpdate
       /\ ReleaseClient /\ UNCHANGED srvVars
    \/ \E name \in CompoundNames : HandlerTrack(name)
       /\ UNCHANGED cliVars /\ UNCHANGED srvVars
    \/ HandlerTerminate
       /\ ReleaseClient /\ UNCHANGED srvVars
    \/ HandlerTerminated
       /\ UNCHANGED <<mgrVars, cliVars>> /\ UNCHANGED srvVars
    \/ HandlerCleanup
       /\ UNCHANGED cliVars /\ UNCHANGED srvVars
    \/ TerminatePeers
       /\ UNCHANGED notMgr
    \/ DisconnectClient
       /\ UNCHANGED notMgr
    \/ KillProcess
       /\ UNCHANGED notMgr
    \/ DeleteSession
       /\ UNCHANGED notMgr
    \/ NextSeq(1)
       /\ UNCHANGED notCli
    \/ InsertSlot(1)
       /\ UNCHANGED notCli
    \/ SendRequest(1)
       /\ UNCHANGED notCli
    \/ SendFailed(1)
       /\ UNCHANGED notCli
    \/ RecvResponse(1)
       /\ UNCHANGED notCli
    \/ RequestTimeout(1)
       /\ UNCHANGED notCli
    \/ TimeoutCleanup(1)
       /\ UNCHANGED notCli
    \/ LaunchResponse(1)
       /\ UNCHANGED notCli
    \/ LaunchTimeout(1)
       /\ UNCHANGED notCli
    \/ WaitInitialized(1)
       /\ UNCHANGED notCli
    \/ ReaderLoop
       /\ UNCHANGED notCli
    \/ ReaderReceive
       /\ UNCHANGED notCli
    \/ ReaderError
       /\ UNCHANGED notCli
    \/ \E r \in adapter.reqs, ok \in BOOLEAN : AdapterRespond(r, ok)
       /\ UNCHANGED notCli
    \/ AdapterInitialized
       /\ UNCHANGED notCli
    \/ AdapterExit
       /\ UNCHANGED notCli

SpecLaunch == Init /\ [][NextLaunch]_vars

\* cleanupLoop on a session that has a client and a spawned adapter: the
\* ticker calls cleanupExpiredSessions again and again, and
\* terminateSessionLocked runs Disconnect and Close on the manager's thread
\* (caller 1).  Nobody calls TerminateSession.  Caller 2 is a tool call using
\* the same client.
SweepTick ==
    cleanupExpiredSessions /\ UNCHANGED notMgr

SweepStep ==
    \/ Tick
       /\ UNCHANGED notMgr
    \/ SweepTick
    \/ RangeSessions
       /\ UNCHANGED notMgr
    \/ DisconnectStart(1)
       /\ UNCHANGED h /\ UNCHANGED srvVars
    \/ CloseStart(1)
       /\ UNCHANGED h /\ UNCHANGED srvVars
    \/ CloseReturn
       /\ UNCHANGED h /\ UNCHANGED srvVars
    \/ KillProcess
       /\ UNCHANGED notMgr
    \/ DeleteSession
       /\ UNCHANGED notMgr
    \/ th[2].pc = "idle" /\ Call(2, "threads")
       /\ UNCHANGED notCli
    \/ \E t \in Callers : NextSeq(t)
       /\ UNCHANGED notCli
    \/ \E t \in Callers : InsertSlot(t)
       /\ UNCHANGED notCli
    \/ \E t \in Callers : SendRequest(t)
       /\ UNCHANGED notCli
    \/ \E t \in Callers : SendFailed(t)
       /\ UNCHANGED notCli
    \/ \E t \in Callers : RecvResponse(t)
       /\ UNCHANGED notCli
    \/ \E t \in Callers : RequestTimeout(t)
       /\ UNCHANGED notCli
    \/ \E t \in Callers : TimeoutCleanup(t)
       /\ UNCHANGED notCli
    \/ \E t \in Callers : RequestCancelled(t)
       /\ UNCHANGED notCli
    \/ ReaderLoop
       /\ UNCHANGED notCli
    \/ ReaderReceive
       /\ UNCHANGED notCli
    \/ ReaderError
       /\ UNCHANGED notCli

NextSweep == SweepStep \/ AdapterStep

\* The ticker keeps firing and every thread of the server keeps running;
\* nothing is assumed of the adapter.
SpecSweep ==
    InitTerm /\ [][NextSweep]_vars /\ WF_vars(SweepStep) /\ WF_vars(SweepTick)

\* One tool call on a session that is up, for every configuration of the
\* server and every language of the session.  The handler's client calls run
\* on caller thread 2.  The adapter stays up: it answers with success or with
\* an error response, or not in time.
ToolSession(lang) ==
    [Language |-> lang, Status |-> "stopped", Client |-> TRUE, Process |-> TRUE, PID |-> 1,
     CreatedAt |-> 0]

InitTools ==
    /\ \E lang \in Languages : sessions = [id \in {1} |-> ToolSession(lang)]
    /\ compoundSessions = [n \in {} |-> 0]
    /\ sessionToCompound = <<>>
    /\ nextId = 2
    /\ now = 0
    /\ cancelled = FALSE
    /\ op = Idle
    /\ tracked = {}
    /\ last = NoCall
    /\ NewClient
    /\ h = NoHandler
    /\ maxSessions = MaxSessions
    /\ \E cfg \in Configs : NewServer(cfg)

\* The arguments of a request next to the sessionId: the line of run_to_line,
\* the type of debug_step, whether execute_command carries a frameId.
ToolArgs(name) ==
    CASE name = "debug_run_to_line" -> Lines
      [] name = "debug_step" -> StepTypes
      [] name = "debug_execute_command" -> {0, 1}
      [] OTHER -> {0}

NextTools ==
    \/ \E name \in ToolNames, id \in 1..2 : \E arg \in ToolArgs(name) :
          ToolStart(name, id, arg)
       /\ UNCHANGED <<mgrVars, cliVars, h, maxSessions, config, lc>>
    \/ ToolEntry
       /\ UNCHANGED <<mgrVars, cliVars, h, maxSessions, config, lc>>
    \/ ToolCall
       /\ UNCHANGED <<mgrVars, h, maxSessions, config, lc>>
    \/ ToolReturn
       /\ UNCHANGED <<mgrVars, cliVars, h, maxSessions, config, lc>>
    \/ ToolUpdate
       /\ UNCHANGED <<cliVars, h, maxSessions, config, lc>>
    \/ ArmStopped(2)
       /\ UNCHANGED notCli
    \/ NextSeq(2)
       /\ UNCHANGED notCli
    \/ InsertSlot(2)
       /\ UNCHANGED notCli
    \/ SendRequest(2)
       /\ UNCHANGED notCli
    \/ RecvResponse(2)
       /\ UNCHANGED notCli
    \/ RequestTimeout(2)
       /\ UNCHANGED notCli
    \/ TimeoutCleanup(2)
       /\ UNCHANGED notCli
    \/ StoppedReceived(2)
       /\ UNCHANGED notCli
    \/ StoppedTimeout(2)
       /\ UNCHANGED notCli
    \/ DisarmStopped(2)
       /\ UNCHANGED notCli
    \/ ReaderLoop
       /\ UNCHANGED notCli
    \/ ReaderReceive
       /\ UNCHANGED notCli
    \/ \E r \in adapter.reqs, ok \in BOOLEAN : AdapterRespond(r, ok)
       /\ UNCHANGED notCli
    \/ \E n \in adapter.stops : AdapterStopped(n)
       /\ UNCHANGED notCli

SpecTools == InitTools /\ [][NextTools]_vars

\* One debug_run_to_line call on a stopped session, for every set of
\* breakpoints the file had before.
InitRunTo ==
    /\ sessions = [id \in {1} |-> ToolSession(RequestLanguage)]
    /\ compoundSessions = [n \in {} |-> 0]
    /\ sessionToCompound = <<>>
    /\ nextId = 2
    /\ now = 0
    /\ cancelled = FALSE
    /\ op = Idle
    /\ tracked = {}
    /\ last = NoCall
    /\ NewClient
    /\ h = NoHandler
    /\ maxSessions = MaxSessions
    /\ NewServer(DefaultConfig)

NextRunTo ==
    \/ \E id \in 1..2, line \in Lines, before \in SUBSET Lines :
          ToolStartRunToLine(id, line, before)
       /\ UNCHANGED <<mgrVars, cliVars, h, maxSessions, config, lc>>
    \/ ToolEntry
       /\ UNCHANGED <<mgrVars, cliVars, h, maxSessions, config, lc>>
    \/ ToolCall
       /\ UNCHANGED <<mgrVars, h, maxSessions, config, lc>>
    \/ ToolReturn
       /\ UNCHANGED <<mgrVars, cliVars, h, maxSessions, config, lc>>
    \/ ToolUpdate
       /\ UNCHANGED <<cliVars, h, maxSessions, config, lc>>
    \/ ArmStopped(2)
       /\ UNCHANGED notCli
    \/ NextSeq(2)
       /\ UNCHANGED notCli
    \/ InsertSlot(2)
       /\ UNCHANGED notCli
    \/ SendRequest(2)
       /\ UNCHANGED notCli
    \/ RecvResponse(2)
       /\ UNCHANGED notCli
    \/ RequestTimeout(2)
       /\ UNCHANGED notCli
    \/ TimeoutCleanup(2)
       /\ UNCHANGED notCli
    \/ StoppedReceived(2)
       /\ UNCHANGED notCli
    \/ StoppedTimeout(2)
       /\ UNCHANGED notCli
    \/ DisarmStopped(2)
       /\ UNCHANGED notCli
    \/ ReaderLoop
       /\ UNCHANGED notCli
    \/ ReaderReceive
       /\ UNCHANGED notCli
    \/ \E r \in adapter.reqs, ok \in BOOLEAN : AdapterRespond(r, ok)
       /\ UNCHANGED notCli
    \/ \E n \in adapter.stops : AdapterStopped(n)
       /\ UNCHANGED notCli

SpecRunTo == InitRunTo /\ [][NextRunTo]_vars

\* One batch debug_evaluate call on a session that is up.  Of the
\* configuration the handler reads AllowExecute only; the tool is registered
\* in both modes.  The adapter stays up: it answers with success or with an
\* error response, or not in time.
InitEval ==
    /\ sessions = [id \in {1} |-> ToolSession(RequestLanguage)]
    /\ compoundSessions = [n \in {} |-> 0]
    /\ sessionToCompound = <<>>
    /\ nextId = 2
    /\ now = 0
    /\ cancelled = FALSE
    /\ op = Idle
    /\ tracked = {}
    /\ last = NoCall
    /\ NewClient
    /\ h = NoHandler
    /\ maxSessions = MaxSessions
    /\ \E cfg \in {c \in Configs : c.Mode = "full" /\ c.AllowModify} : NewServer(cfg)

NextEval ==
    \/ \E id \in 1..2, exprs \in ExprSeqs, arg \in 0..1 :
          ToolStartBatch(id, exprs, arg)
       /\ UNCHANGED <<mgrVars, cliVars, h, maxSessions, config, lc>>
    \/ ToolEntry
       /\ UNCHANGED <<mgrVars, cliVars, h, maxSessions, config, lc>>
    \/ ToolCall
       /\ UNCHANGED <<mgrVars, h, maxSessions, config, lc>>
    \/ ToolReturn
       /\ UNCHANGED <<mgrVars, cliVars, h, maxSessions, config, lc>>
    \/ NextSeq(2)
       /\ UNCHANGED notCli
    \/ InsertSlot(2)
       /\ UNCHANGED notCli
    \/ SendRequest(2)
       /\ UNCHANGED notCli
    \/ RecvResponse(2)
       /\ UNCHANGED notCli
    \/ RequestTimeout(2)
       /\ UNCHANGED notCli
    \/ TimeoutCleanup(2)
       /\ UNCHANGED notCli
    \/ ReaderLoop
       /\ UNCHANGED notCli
    \/ ReaderReceive
       /\ UNCHANGED notCli
    \/ \E r \in adapter.reqs, ok \in BOOLEAN : AdapterRespond(r, ok)
       /\ UNCHANGED notCli

SpecEval == InitEval /\ [][NextEval]_vars

\* One call of ResolveConfiguration, for every configuration and context.
InitResolve ==
    /\ NewSessionManager(MaxSessions) /\ NewClient /\ h = NoHandler
    /\ config = DefaultConfig /\ tool = NoTool
    /\ \E cfg \in ResolveConfigs, inputValues \in SUBSET InputIds :
          lc = [pc |-> "call", cfg |-> cfg, inputValues |-> inputValues]

Resolve ==
    /\ lc.pc = "call"
    /\ lc' = [pc |-> "returned", cfg |-> lc.cfg, inputValues |-> lc.inputValues,
              out |-> ResolveConfiguration(lc.cfg, lc.inputValues)]
    /\ UNCHANGED <<mgrVars, cliVars, h, maxSessions, config, tool>>

NextResolve == Resolve

SpecResolve == InitResolve /\ [][NextResolve]_vars

\* A configuration object is loaded, saved and loaded again.
InitJSON ==
    /\ NewSessionManager(MaxSessions) /\ NewClient /\ h = NoHandler
    /\ config = DefaultConfig /\ tool = NoTool
    /\ \E doc \in Docs :
          lc = [pc |-> "doc", doc |-> doc, cfg |-> EmptyConfiguration,
                saved |-> <<>>, again |-> EmptyConfiguration]

Load ==
    /\ lc.pc = "doc"
    /\ lc' = [lc EXCEPT !.pc = "loaded", !.cfg = UnmarshalJSON(lc.doc)]

Save ==
    /\ lc.pc = "loaded"
    /\ lc' = [lc EXCEPT !.pc = "saved", !.saved = MarshalJSON(lc.cfg)]

Reload ==
    /\ lc.pc = "saved"
    /\ lc' = [lc EXCEPT !.pc = "reloaded", !.again = UnmarshalJSON(lc.saved)]

NextJSON ==
    \/ Load
       /\ UNCHANGED <<mgrVars, cliVars, h, maxSessions, config, tool>>
    \/ Save
       /\ UNCHANGED <<mgrVars, cliVars, h, maxSessions, config, tool>>
    \/ Reload
       /\ UNCHANGED <<mgrVars, cliVars, h, maxSessions, config, tool>>

SpecJSON == InitJSON /\ [][NextJSON]_vars

\* The configurations MergeOverrides is called with: parsed from a document
\* of at most two members, without or with arguments.
MergeConfigs ==
    {[UnmarshalJSON(doc) EXCEPT !.args = a] :
        doc \in {d \in Docs : Len(d) <= 2}, a \in {<<>>, <<<<Text("b")>>>>}}

\* MergeOverrides on a configuration, and the caller's later changes to the
\* configuration it got back.
InitMerge ==
    /\ NewSessionManager(MaxSessions) /\ NewClient /\ h = NoHandler
    /\ config = DefaultConfig /\ tool = NoTool
    /\ \E cfg \in MergeConfigs, overrides \in OverrideMaps :
          lc = [pc |-> "call", overrides |-> overrides, ret |-> "none",
                original |-> cfg,
                heap |-> [cfg |-> cfg, result |-> EmptyConfiguration]]

Merge ==
    /\ lc.pc = "call"
    /\ lc' = [lc EXCEPT !.pc = "returned",
                        !.ret = MergeOverrides(lc.heap, lc.overrides).ret,
                        !.heap = MergeOverrides(lc.heap, lc.overrides).heap]

\* The caller assigns to a field of the configuration MergeOverrides returned.
ChangeReturned(v) ==
    /\ lc.pc = "returned"
    /\ lc' = [lc EXCEPT !.pc = "changed", !.heap[lc.ret].program = v]

NextMerge ==
    \/ Merge
       /\ UNCHANGED <<mgrVars, cliVars, h, maxSessions, config, tool>>
    \/ \E v \in JSONValues : ChangeReturned(v)
       /\ UNCHANGED <<mgrVars, cliVars, h, maxSessions, config, tool>>

SpecMerge == InitMerge /\ [][NextMerge]_vars

\* DisconnectClient for a session that has no client: nothing is sent.
DisconnectNoClient ==
    /\ DisconnectClient
    /\ ~sessions[op.cur].Client

\* One debug_launch call and, at any time of it, one debug_continue or
\* debug_pause call on a session id, served concurrently.  The launch runs its
\* client calls on caller 1, the other call on caller 2 of the same client.
\* The adapter stays up and answers every request in time, with success or
\* with an error response; the transport does not fail.
NextRace ==
    \/ h.pc = "idle" /\ HandlerStart("launch", 1, FALSE)
       /\ UNCHANGED <<mgrVars, cliVars>> /\ UNCHANGED srvVars
    \/ HandlerCreate
       /\ UNCHANGED cliVars /\ UNCHANGED srvVars
    \/ \E ok \in BOOLEAN : HandlerSpawn(ok)
       /\ UNCHANGED mgrVars /\ UNCHANGED srvVars
    \/ HandlerSetProcess
       /\ UNCHANGED cliVars /\ UNCHANGED srvVars
    \/ HandlerSetClient
       /\ UNCHANGED cliVars /\ UNCHANGED srvVars
    \/ HandlerCall
       /\ UNCHANGED mgrVars /\ UNCHANGED srvVars
    \/ HandlerReturn
       /\ UNCHANGED <<mgrVars, cliVars>> /\ UNCHANGED srvVars
    \/ HandlerUpdate
       /\ UNCHANGED cliVars /\ UNCHANGED srvVars
    \/ HandlerTerminate
       /\ UNCHANGED cliVars /\ UNCHANGED srvVars
    \/ HandlerTerminated
       /\ UNCHANGED <<mgrVars, cliVars>> /\ UNCHANGED srvVars
    \/ HandlerCleanup
       /\ UNCHANGED cliVars /\ UNCHANGED srvVars
    \/ TerminatePeers
       /\ UNCHANGED notMgr
    \/ DisconnectNoClient
       /\ UNCHANGED notMgr
    \/ DisconnectStart(1)
       /\ UNCHANGED h /\ UNCHANGED srvVars
    \/ CloseStart(1)
       /\ UNCHANGED h /\ UNCHANGED srvVars
    \/ CloseReturn
       /\ UNCHANGED h /\ UNCHANGED srvVars
    \/ KillProcess
       /\ UNCHANGED notMgr
    \/ DeleteSession
       /\ UNCHANGED notMgr
    \/ \E name \in {"debug_continue", "debug_pause"}, id \in {1} :
          ToolStart(name, id, 0)
       /\ UNCHANGED <<mgrVars, cliVars, h, maxSessions, config, lc>>
    \/ ToolEntry
       /\ UNCHANGED <<mgrVars, cliVars, h, maxSessions, config, lc>>
    \/ ToolCall
       /\ UNCHANGED <<mgrVars, h, maxSessions, config, lc>>
    \/ ToolReturn
       /\ UNCHANGED <<mgrVars, cliVars, h, maxSessions, config, lc>>
    \/ ToolUpdate
       /\ UNCHANGED <<cliVars, h, maxSessions, config, lc>>
    \/ \E t \in Callers : NextSeq(t)
       /\ UNCHANGED notCli
    \/ \E t \in Callers : InsertSlot(t)
       /\ UNCHANGED notCli
    \/ \E t \in Callers : SendRequest(t)
       /\ UNCHANGED notCli
    \/ \E t \in Callers : RecvResponse(t)
       /\ UNCHANGED notCli
    \/ \E t \in Callers : RequestCancelled(t)
       /\ UNCHANGED notCli
    \/ LaunchResponse(1)
       /\ UNCHANGED notCli
    \/ WaitInitialized(1)
       /\ UNCHANGED notCli
    \/ ReaderLoop
       /\ UNCHANGED notCli
    \/ ReaderReceive
       /\ UNCHANGED notCli
    \/ \E r \in adapter.reqs, ok \in BOOLEAN : AdapterRespond(r, ok)
       /\ UNCHANGED notCli
    \/ AdapterInitialized
       /\ UNCHANGED notCli

SpecRace == Init /\ [][NextRace]_vars

\* killProcessGroup in a termination that runs while a handler holds the
\* process it spawned: h.signalled records that this process got the signal.
KillSpawned ==
    /\ KillProcess
    /\ h' = [h EXCEPT !.signalled =
                @ \/ (h.cmd > 0 /\ sessions[op.cur].PID = h.cmd)]

\* The thread a termination runs on: the launch handler's own (caller 1) or
\* that of the debug_disconnect call (caller 2).
Terminator == IF h.pc = "terminating" THEN 1 ELSE 2

\* One debug_launch call and, while it runs or after it, debug_disconnect
\* calls on the id it was given.  The adapter stays up and answers every
\* request in time, with success or with an error response.
NextOrphan ==
    \/ h.pc = "idle" /\ HandlerStart("launch", 1, FALSE)
       /\ UNCHANGED <<mgrVars, cliVars>> /\ UNCHANGED srvVars
    \/ HandlerCreate
       /\ UNCHANGED cliVars /\ UNCHANGED srvVars
    \/ \E ok \in BOOLEAN : HandlerSpawn(ok)
       /\ UNCHANGED mgrVars /\ UNCHANGED srvVars
    \/ HandlerSetProcess
       /\ UNCHANGED cliVars /\ UNCHANGED srvVars
    \/ HandlerSetClient
       /\ UNCHANGED cliVars /\ UNCHANGED srvVars
    \/ HandlerCall
       /\ UNCHANGED mgrVars /\ UNCHANGED srvVars
    \/ HandlerReturn
       /\ UNCHANGED <<mgrVars, cliVars>> /\ UNCHANGED srvVars
    \/ HandlerUpdate
       /\ UNCHANGED cliVars /\ UNCHANGED srvVars
    \/ HandlerTerminate
       /\ UNCHANGED cliVars /\ UNCHANGED srvVars
    \/ HandlerTerminated
       /\ UNCHANGED <<mgrVars, cliVars>> /\ UNCHANGED srvVars
    \/ HandlerCleanup
       /\ UNCHANGED cliVars /\ UNCHANGED srvVars
    \/ \E id \in Issued, td \in BOOLEAN :
          h.pc \notin {"idle", "terminate", "terminating"} /\ TerminateSession(id, td)
       /\ UNCHANGED notMgr
    \/ TerminatePeers
       /\ UNCHANGED notMgr
    \/ DisconnectNoClient
       /\ UNCHANGED notMgr
    \/ DisconnectStart(Terminator)
       /\ UNCHANGED h /\ UNCHANGED srvVars
    \/ CloseStart(Terminator)
       /\ UNCHANGED h /\ UNCHANGED srvVars
    \/ CloseReturn
       /\ UNCHANGED h /\ UNCHANGED srvVars
    \/ KillSpawned
       /\ UNCHANGED cliVars /\ UNCHANGED srvVars
    \/ DeleteSession
       /\ UNCHANGED notMgr
    \/ \E t \in Callers : NextSeq(t)
       /\ UNCHANGED notCli
    \/ \E t \in Callers : InsertSlot(t)
       /\ UNCHANGED notCli
    \/ \E t \in Callers : SendRequest(t)
       /\ UNCHANGED notCli
    \/ \E t \in Callers : RecvResponse(t)
       /\ UNCHANGED notCli
    \/ \E t \in Callers : RequestCancelled(t)
       /\ UNCHANGED notCli
    \/ LaunchResponse(1)
       /\ UNCHANGED notCli
    \/ LaunchCancelled(1)
       /\ UNCHANGED notCli
    \/ WaitInitialized(1)
       /\ UNCHANGED notCli
    \/ ReaderLoop
       /\ UNCHANGED notCli
    \/ ReaderReceive
       /\ UNCHANGED notCli
    \/ \E r \in adapter.reqs, ok \in BOOLEAN : AdapterRespond(r, ok)
       /\ UNCHANGED notCli
    \/ AdapterInitialized
       /\ UNCHANGED notCli

SpecOrphan == Init /\ [][NextOrphan]_vars

\* The session table under every sequence of the manager's methods, for every
\* configured bound from 0 up, UpdateSessionStatus with every SessionStatus.
InitTable ==
    /\ \E max \in 0..MaxSessions : NewSessionManager(max)
    /\ NewClient /\ h = NoHandler
    /\ NewServer(DefaultConfig)

NextTable ==
    \/ CreateSession(RequestLanguage)
       /\ UNCHANGED notMgr
    \/ \E id \in Issued : SetSessionClient(id)
       /\ UNCHANGED notMgr
    \/ \E id \in Issued, status \in Statuses : UpdateSessionStatus(id, status)
       /\ UNCHANGED notMgr
    \/ \E id \in Issued, td \in BOOLEAN : TerminateSession(id, td)
       /\ UNCHANGED notMgr
    \/ TerminatePeers
       /\ UNCHANGED notMgr
    \/ DisconnectClient
       /\ UNCHANGED notMgr
    \/ KillProcess
       /\ UNCHANGED notMgr
    \/ DeleteSession
       /\ UNCHANGED notMgr
    \/ cleanupExpiredSessions
       /\ UNCHANGED notMgr
    \/ CloseCancel
       /\ UNCHANGED notMgr
    \/ Close
       /\ UNCHANGED notMgr
    \/ RangeSessions
       /\ UNCHANGED notMgr
    \/ Tick
       /\ UNCHANGED notMgr

SpecTable == InitTable /\ [][NextTable]_vars

\* ------------------------------------------------------------------------
\* Properties of the session and compound manager (specification Spec)
\* ------------------------------------------------------------------------

\* A step in which TerminateSession returns nil to its caller.
TerminateReturns == op.kind = "TerminateSession" /\ op'.kind = "idle"

\* C1: for every compound registered with stopAll = true at the time of the
\* call, when TerminateSession(id) returns nil for a member id, no member of
\* the compound is in the session table and the compound is no longer listed.
C1_StopAllLeavesNoMember ==
    [][TerminateReturns =>
         \A n \in DOMAIN op.pre :
            (op.pre[n].StopAll /\ op.id \in Range(op.pre[n].SessionIDs)) =>
               /\ Range(op.pre[n].SessionIDs) \cap DOMAIN sessions' = {}
               /\ n \notin DOMAIN compoundSessions'
      ]_mgrVars

\* C1 witness: TerminateSession of a member of a stopAll compound has
\* terminated a live sibling and is about to delete the member and return.
C1_Witness ==
    /\ op.kind = "TerminateSession" /\ ~op.locked /\ op.phase = "del"
    /\ op.done # {}
    /\ \E n \in DOMAIN op.pre :
          /\ op.pre[n].StopAll
          /\ {op.id} \cup op.done \subseteq Range(op.pre[n].SessionIDs)

\* C2: on every termination path (TerminateSession, a stopAll sibling, the
\* timeout sweep, Close) a session that has a spawned process leaves the
\* table only after killProcessGroup has signalled that process.
C2_SignalledBeforeRemoved ==
    [][\A id \in DOMAIN sessions \ DOMAIN sessions' :
          (sessions[id].PID > 0 \/ sessions[id].Process)
              => (op.cur = id /\ op.killed)
      ]_mgrVars

\* C2 witness: a sibling with a spawned process has been signalled by the
\* stopAll cascade and is about to be deleted from the table.
C2_Witness ==
    /\ op.kind = "TerminateSession" /\ op.locked /\ op.phase = "del"
    /\ sessions[op.cur].PID > 0 /\ op.killed

\* C4: the table never holds more than maxSessions sessions, and a
\* CreateSession call made when it holds maxSessions fails and adds nothing.
C4_BoundedTable ==
    /\ [](Cardinality(DOMAIN sessions) <= maxSessions)
    /\ [][(Cardinality(DOMAIN sessions) >= maxSessions /\ last'.op = "CreateSession")
            => (last'.err # "nil" /\ sessions' = sessions)]_mgrVars

\* C4 witness: a CreateSession call has just failed on a table that is full
\* of sessions.
C4_Witness ==
    /\ maxSessions >= 1
    /\ Cardinality(DOMAIN sessions) = maxSessions
    /\ last = Returned("CreateSession", "maximum number of sessions reached")

\* C10: while the manager is open and none of its methods is running, every
\* id in the sessionIds of every compound record is in the session table.
C10_CompoundMembersLive ==
    (op.kind = "idle" /\ ~cancelled) =>
       \A n \in DOMAIN compoundSessions :
          Range(compoundSessions[n].SessionIDs) \subseteq DOMAIN sessions

\* C35: when a run of the timeout sweep that has terminated a member of a
\* stopAll compound returns, no member of that compound is in the session
\* table and the compound record is gone.
C35_SweepCascades ==
    [][(op.kind = "cleanupExpiredSessions" /\ op'.kind = "idle") =>
         \A n \in DOMAIN compoundSessions :
            (/\ compoundSessions[n].StopAll
             /\ Range(compoundSessions[n].SessionIDs) \cap op.done # {}) =>
               /\ Range(compoundSessions[n].SessionIDs) \cap DOMAIN sessions' = {}
               /\ n \notin DOMAIN compoundSessions'
      ]_mgrVars

\* C36: in the stopAll cascade of TerminateSession(id, false), the disconnect
\* request sent to a peer that has a client carries terminateDebuggee = false.
C36_PeersGetCallersFlag ==
    [][(/\ op.kind = "TerminateSession" /\ ~op.td
        /\ op.locked /\ op.phase = "disc" /\ op'.phase = "kill"
        /\ sessions[op.cur].Client) =>
          op'.sent = "false"
      ]_mgrVars

\* ------------------------------------------------------------------------
\* Properties of the DAP client (specification SpecClient)
\* ------------------------------------------------------------------------

\* The request of caller t is over: the method that waits for its response
\* has returned.
RequestOver(t) ==
    th[t].pc = "done" /\ th[t].seq > 0 /\ th[t].op # "LaunchAsync"

\* The sequence number of the request caller t has waited for.
Awaited(t) == IF th[t].op = "WaitForLaunchResponse" THEN th[t].ch ELSE th[t].seq

\* C5: every request with sequence number n ends in exactly one of three
\* ways: its response is delivered to the waiter; the waiter times out and n
\* is out of the pending-request table; the transport is closed and n is out
\* of the pending-request table.
C5_OneOutcomePerRequest ==
    \A t \in Callers :
       RequestOver(t) =>
          \/ th[t].res \in {"ok", "error"} /\ Awaited(t) \notin pendingRequests
          \/ /\ th[t].res \in {"request timeout", "launch response timeout",
                               "attach response timeout"}
             /\ Awaited(t) \notin pendingRequests
          \/ /\ th[t].res \in {"context canceled", "send failed"}
             /\ Awaited(t) \notin pendingRequests

\* C26: no caller returns "request timeout" for a request whose response the
\* reader loop has put into its slot.
C26_DeliveredResponseIsReturned ==
    \A t \in Callers :
       (th[t].pc = "done" /\ th[t].res = "request timeout") =>
          respCh[th[t].seq] \notin {"ok", "error"}

\* C30: when the reader loop takes a response whose requestSeq is not in the
\* pending-request table, the table and every slot stay as they are, no
\* caller's state changes, and the reader goes back to the head of its loop
\* (where it ends, as after any message, if the client has been closed).
C30_UnknownResponseDropped ==
    [][(/\ reader.pc = "recv" /\ inbound # <<>>
        /\ Head(inbound).kind = "response"
        /\ Head(inbound).seq \notin pendingRequests
        /\ inbound' = Tail(inbound)) =>
          /\ UNCHANGED <<pendingRequests, respCh, th, initialized, stoppedCh>>
          /\ reader' = [pc |-> "head", errs |-> 0]]_vars

\* C30 witness: a caller has timed out and removed its slot, the adapter has
\* answered the request since, and the reader has taken the answer: the slot
\* is still empty and the reader is in Receive.
C30_Witness ==
    \E t \in Callers :
       /\ th[t].pc = "done" /\ th[t].res = "request timeout"
       /\ th[t].seq \in Range(adapter.wire)
       /\ \A r \in adapter.reqs : r.seq # th[t].seq
       /\ inbound = <<>> /\ reader.pc = "recv"
       /\ respCh[th[t].seq] = "empty"
       /\ th[t].seq \notin pendingRequests

\* C6: once Client.Close has returned, the pending-request table is empty.
C6_NoSlotAfterClose ==
    closing = "closed" => pendingRequests = {}

\* ------------------------------------------------------------------------
\* Properties of ContinueAndWait (specification SpecWait)
\* ------------------------------------------------------------------------

\* The stopped event of a continue request was handled while its caller was
\* still in ContinueAndWait, after the request went out and before a timer of
\* the call fired.
HandledInTime(e) == e.during \in {"wait", "waitStopped"}

\* C8: a stopped event that follows the continue request of a ContinueAndWait
\* call, handled by the reader while the call waits, is put in the channel of
\* that call; such a call does not time out waiting for the stop, and the stop
\* it returns is that one.
C8_StopReachesTheCall ==
    /\ \A e \in stopLog : HandledInTime(e) => e.to = ContinueCaller(e.cause)
    /\ \A t \in Callers :
          (th[t].op = "ContinueAndWait" /\ th[t].pc \in {"disarm", "done"}) =>
             /\ th[t].res = "timeout waiting for stopped event after continue" =>
                   ~ \E e \in stopLog : e.cause = th[t].seq /\ HandledInTime(e)
             /\ th[t].res = "stopped" => th[t].got = th[t].seq

\* C8 witness: the stopped event overtook the continue response (the reader
\* handled it while the caller was still inside Continue), and the call has
\* returned that stop.
C8_Witness ==
    /\ th[1].op = "ContinueAndWait" /\ th[1].pc = "done" /\ th[1].res = "stopped"
    /\ \E e \in stopLog : e.cause = th[1].seq /\ e.during = "wait" /\ e.to = 1

\* Caller t has armed its stopped channel and has not yet left its wait.
Armed(t) ==
    /\ th[t].op \in {"ContinueAndWait", "WaitForStopped"}
    /\ th[t].pc \in {"seq", "send", "write", "sendfailed", "wait", "timedout",
                     "waitStopped"}

\* C37: with two stopped waits on one client, the channel a call has
\* installed stays installed while that call waits, whatever the other call
\* arms or cleans up; and a stopped event the reader handles while some call
\* waits is put into the channel of a waiting call.
C37_WaitersDoNotInterfere ==
    [][/\ \A t \in Callers :
             (Armed(t) /\ stoppedChan = t /\ th'[t] = th[t]) => stoppedChan' = t
       /\ (/\ inbound # <<>> /\ Head(inbound).kind = "stopped"
           /\ inbound' = Tail(inbound)
           /\ \E t \in Callers : Armed(t)) =>
             \E t \in Callers : Armed(t) /\ stoppedCh'[t] # <<>>]_vars

\* C38: the stop a ContinueAndWait call returns is the stop that followed
\* its own continue request, not the stop of an earlier step.
C38_ReturnsOwnStop ==
    (/\ th[1].op = "ContinueAndWait" /\ th[1].pc \in {"disarm", "done"}
     /\ th[1].res = "stopped") =>
        th[1].got = th[1].seq

\* A step of the reader loop in which Receive returns a message, or an error.
ReceivesMessage ==
    reader.pc = "recv" /\ inbound # <<>> /\ Decodes(Head(inbound))
        /\ inbound' = Tail(inbound)
ReceivesError ==
    /\ reader.pc = "recv"
    /\ \/ inbound = <<>> /\ adapter.exited /\ reader' # reader
       \/ inbound # <<>> /\ ~Decodes(Head(inbound)) /\ inbound' = Tail(inbound)

\* C40: the reader loop stops only on shutdown or on the fifth transport
\* error in a row: a received message sets the count of consecutive errors to
\* zero and sends the loop back to its head, an error adds one to the count,
\* and the loop stops only at a done context or on an error that brings the
\* count to maxConsecutiveErrors (specification SpecReader).
C40_FiveConsecutiveErrors ==
    [][/\ ReceivesMessage =>
            /\ reader'.errs = 0
            /\ reader'.pc = "head"
       /\ ReceivesError =>
            IF ctxDone \/ reader.errs = maxConsecutiveErrors - 1
            THEN reader'.pc = "done"
            ELSE reader'.pc = "head" /\ reader'.errs = reader.errs + 1
       /\ (reader.pc # "done" /\ reader'.pc = "done") =>
            \/ ctxDone
            \/ ReceivesError /\ reader.errs = maxConsecutiveErrors - 1]_vars

\* C40 witness: the adapter has sent five or more frames that do not decode,
\* the reader has taken them all, and it is still receiving: a message
\* between them set the count back.
C40_Witness ==
    /\ adapter.malformed >= maxConsecutiveErrors
    /\ inbound = <<>> /\ ~adapter.exited /\ ~ctxDone
    /\ reader.pc = "recv" /\ reader.errs > 0

\* C39: when a launch handler has returned, the adapter process it spawned is
\* owned by a session of the table or has been signalled by killProcessGroup,
\* also when the session was terminated by a debug_disconnect call while the
\* handler was running (specification SpecOrphan).
C39_SpawnedProcessOwnedOrKilled ==
    (h.pc = "returned" /\ h.cmd > 0)
        => \/ \E id \in DOMAIN sessions : sessions[id].PID = h.cmd
           \/ h.signalled

\* ------------------------------------------------------------------------
\* Properties of termination against a live client (specification SpecTerm)
\* ------------------------------------------------------------------------

\* C7: TerminateSession, once called, returns and has removed the session,
\* whatever the adapter does or fails to do.
C7_TerminateSessionReturns ==
    (op.kind = "TerminateSession") ~> (op.kind = "idle" /\ 1 \notin DOMAIN sessions)

\* C31: once the disconnect request of TerminateSession has failed or timed
\* out, the call still goes on to remove the session from the table and
\* returns nil.
C31_TerminateRemovesDespiteErrors ==
    (/\ op.kind = "TerminateSession" /\ op.phase = "disconnecting"
     /\ th[1].op = "disconnect" /\ th[1].pc = "done" /\ th[1].res # "ok")
       ~> (/\ 1 \notin DOMAIN sessions
           /\ last = ReturnedFor("TerminateSession", 1, "nil"))

\* ------------------------------------------------------------------------
\* Properties of the launch and attach handlers (specification SpecLaunch)
\* ------------------------------------------------------------------------

\* C3: when a launch, attach, config-based launch or compound-launch handler
\* has returned an error, none of the sessions it created is in the table.
C3_NoSessionLeftOnError ==
    (h.pc = "returned" /\ h.res = "error") =>
       Range(h.created) \cap DOMAIN sessions = {}

\* C3 witness: a compound launch brought its first session up, failed on the
\* second after creating it, and has returned the error.
C3_Witness ==
    /\ h.kind = "compound" /\ h.pc = "returned" /\ h.res = "error"
    /\ Len(h.created) >= 2

\* The order the launch protocol requires.
LaunchOrder ==
    <<"initialize", "LaunchAsync", "WaitInitialized", "configurationDone",
      "WaitForLaunchResponse">>

LaunchPaths == {"launch", "config", "compound"}

\* C9: in every launch path the client calls are made in the order
\* launchAsync, waitInitialized, configurationDone, waitForLaunchResponse:
\* configurationDone is entered, and is on the wire, only once the
\* initialized event has been observed, and the launch response is collected
\* only after configurationDone has completed.
C9_LaunchStepsInOrder ==
    (h.kind \in LaunchPaths /\ h.pc \in {"proto", "inproto", "update"}) =>
       /\ h.log = SubSeq(LaunchOrder, 1, Len(h.log))
       /\ h.pc = "inproto" =>
             /\ th[1].op = LaunchOrder[Len(h.log) + 1]
             /\ th[1].op = "configurationDone" =>
                   initialized /\ "WaitInitialized" \in Range(h.log)
             /\ th[1].op = "WaitForLaunchResponse" =>
                   "configurationDone" \in Range(h.log)
       /\ \A r \in adapter.reqs : r.cmd = "configurationDone" => initialized

\* C9 witness: a launch has gone through the five steps, with the launch
\* response collected last.
C9_Witness ==
    /\ h.kind \in LaunchPaths /\ h.pc = "update"
    /\ h.log = LaunchOrder

\* C28 as stated: in a launch path, whichever step has failed, the handler's
\* TerminateSession call carries terminateDebuggee = true.
C28_AnyFailureTerminatesDebuggee ==
    [][(h.kind \in LaunchPaths /\ h.pc = "terminate" /\ h'.pc = "terminating") =>
          (op'.kind = "TerminateSession" /\ op'.id = h.cur /\ op'.td)]_vars

\* C28, amended: in a launch path a failed step makes the handler call
\* TerminateSession on the session it created and return an error result;
\* the call carries terminateDebuggee = false when the failed step is the
\* spawn of the adapter, and terminateDebuggee = true for every later step.
C28_FailureTerminatesSession ==
    [][/\ (h.kind \in LaunchPaths /\ h.pc # "terminate" /\ h'.pc = "terminate") =>
             h'.td = (h.pc # "spawn")
       /\ (h.kind \in LaunchPaths /\ h.pc = "terminate" /\ h'.pc = "terminating") =>
             (op'.kind = "TerminateSession" /\ op'.id = h.cur /\ op'.td = h.td)
       /\ (h.kind \in LaunchPaths /\ h.pc = "cleanup" /\ h'.pc = "returned") =>
             h'.res = "error"]_vars

\* C28 witness: a launch whose failure came after initialize has terminated
\* its session with terminateDebuggee = true and returned the error.
C28_Witness ==
    /\ h.kind \in LaunchPaths /\ h.pc = "returned" /\ h.res = "error"
    /\ h.log # <<>> /\ h.td
    /\ h.cur \notin DOMAIN sessions

\* C29 as stated: once the initialized event has been handled, every
\* WaitInitialized call that returns, returns success.
C29_LatchedWaitSucceeds ==
    [][\A t \in Callers :
          (initialized /\ th[t].pc = "waitInit" /\ th'[t].pc = "done") =>
             th'[t].res = "ok"]_vars

\* C29, amended: the latch never reopens; on a client that has not been
\* closed, every WaitInitialized call that returns once the latch is closed
\* returns success; and the reader handles a further initialized event
\* without any effect but going on to the next message.
C29_LatchIsOneShot ==
    [][/\ initialized => initialized'
       /\ \A t \in Callers :
             (initialized /\ ~ctxDone /\ th[t].pc = "waitInit" /\ th'[t].pc = "done")
                => th'[t].res = "ok"
       /\ (/\ initialized /\ inbound # <<>> /\ Head(inbound).kind = "initialized"
           /\ inbound' = Tail(inbound)) =>
             /\ reader'.pc = "head"
             /\ UNCHANGED <<pendingRequests, respCh, stoppedCh, stopLog, th>>]_vars

\* C29 witness: the second initialized event has been handled on an open
\* client, and a WaitInitialized call made with the latch closed has
\* returned success.
C29_Witness ==
    /\ adapter.init = "again" /\ inbound = <<>> /\ initialized /\ ~ctxDone
    /\ reader.pc = "recv"
    /\ \E t \in Callers : th[t].op = "WaitInitialized" /\ th[t].pc = "done"
                          /\ th[t].res = "ok"

\* C33: in a launch path, a launch response the reader has put into the slot
\* of the launch request stays there, whatever the handler does meanwhile
\* (WaitInitialized, configurationDone), until WaitForLaunchResponse takes
\* it; and WaitForLaunchResponse returns success when the slot holds a
\* successful response.
C33_LaunchResponseHeld ==
    [][(h.kind \in LaunchPaths /\ h.pc \in {"proto", "inproto"} /\ th[1].ch > 0) =>
          LET n == th[1].ch IN
          /\ (respCh[n] \in {"ok", "error"} /\ th[1].pc # "waitLaunch") =>
                respCh'[n] = respCh[n]
          /\ (respCh[n] = "ok" /\ th[1].pc = "waitLaunch" /\ th'[1].pc = "done") =>
                (th'[1].res = "ok" /\ respCh'[n] = "taken")]_vars

\* C33 witness: the adapter has answered the launch request before it sent
\* the initialized event; the response is in the slot while the handler is
\* in WaitInitialized.
C33_Witness ==
    /\ h.kind \in LaunchPaths /\ h.pc = "inproto"
    /\ th[1].op = "WaitInitialized" /\ th[1].pc = "waitInit"
    /\ ~initialized /\ adapter.init = "may"
    /\ th[1].ch > 0 /\ respCh[th[1].ch] = "ok"

\* C15: the requests of one client are on the wire in the order in which
\* their callers drew their sequence numbers: the sequence numbers on the
\* wire only go up.
C15_WireOrderIsSeqOrder ==
    \A i, j \in 1..Len(adapter.wire) :
       i < j => adapter.wire[i] < adapter.wire[j]

\* ------------------------------------------------------------------------
\* Properties of the session table (specifications SpecTable, Spec)
\* ------------------------------------------------------------------------

\* C11: after any sequence of manager operations, UpdateSessionStatus
\* included, every session in the table has status initializing, running or
\* stopped: no session in the table is terminated.
C11_LiveStatusInTable ==
    \A id \in DOMAIN sessions :
       sessions[id].Status \in {"initializing", "running", "stopped"}

\* C17 as stated: every session in the table whose status is not terminated
\* has a non-nil DAP client.
C17_LiveSessionHasClient ==
    \A id \in DOMAIN sessions :
       sessions[id].Status # "terminated" => sessions[id].Client

\* C17: a session enters the table with a nil client and status initializing;
\* a SetSessionClient call that returns nil leaves the session it named with
\* the client it was given; the client of a session in the table changes in
\* no other step, whatever UpdateSessionStatus makes of its status.
C17_ClientFromSetSessionClient ==
    [][/\ \A id \in DOMAIN sessions' \ DOMAIN sessions :
             ~sessions'[id].Client /\ sessions'[id].Status = "initializing"
       /\ \A id \in DOMAIN sessions \cap DOMAIN sessions' :
             sessions'[id].Client # sessions[id].Client =>
                last' = ReturnedFor("SetSessionClient", id, "nil")
       /\ \A id \in Issued :
             last' = ReturnedFor("SetSessionClient", id, "nil") =>
                id \in DOMAIN sessions' /\ sessions'[id].Client
      ]_mgrVars

\* C17 witness: SetSessionClient has just stored the client of one session
\* while another session, marked running by UpdateSessionStatus, has none.
C17_Witness ==
    \E id, jd \in DOMAIN sessions :
       /\ last = ReturnedFor("SetSessionClient", id, "nil")
       /\ sessions[id].Client
       /\ sessions[jd].Status = "running" /\ ~sessions[jd].Client

\* C12: TerminateSession on an id that was issued and is no longer in the
\* table (it was terminated) starts no termination (no disconnect, no
\* signal), returns "session not found", and leaves the session table, the
\* compound records and the session-to-compound mapping as they were.
C12_TerminateTwiceIsNoOp ==
    [][\A id \in Issued \ DOMAIN sessions :
          op.kind = "idle" =>
             /\ ~(op'.kind = "TerminateSession" /\ op'.id = id)
             /\ (last'.op = "TerminateSession" /\ last'.id = id) =>
                   /\ last'.err = "session not found"
                   /\ op' = Idle
                   /\ UNCHANGED <<sessions, compoundSessions, sessionToCompound>>
      ]_mgrVars

\* C12 witness: TerminateSession has just returned "session not found" for
\* an id that was terminated while it was a member of a compound record
\* that is still there.
C12_Witness ==
    /\ last.op = "TerminateSession" /\ last.err = "session not found"
    /\ last.id \in Issued \ DOMAIN sessions
    /\ last.id \in DOMAIN sessionToCompound
    /\ sessionToCompound[last.id] \in DOMAIN compoundSessions

\* C25: when SessionManager.Close returns, the session table is empty.
C25_CloseLeavesTableEmpty ==
    [][(op.kind = "Close" /\ op'.kind = "idle") => sessions' = <<>>]_mgrVars

\* C25 witness: the loop of Close has terminated the two or more sessions
\* that were in the table and has no session left to visit.
C25_Witness ==
    /\ op.kind = "Close" /\ op.phase = "loop" /\ op.pending = {}
    /\ Cardinality(op.done) >= 2
    /\ sessions = <<>>

\* C13: every session whose age exceeds sessionTimeout is eventually removed
\* from the table by the timeout sweep, with no TerminateSession call.
C13_ExpiredIsReaped ==
    \A id \in 1..MaxIds : (id \in Expired) ~> (id \notin DOMAIN sessions)

\* C14: with maxSessions = 0 the table stays empty and every CreateSession
\* call fails with the session-limit error.
C14_ZeroBoundRefusesAll ==
    maxSessions = 0 =>
       /\ sessions = <<>>
       /\ last.op = "CreateSession" =>
              last.err = "maximum number of sessions reached"

\* C14 witness: CreateSession has just been refused under maxSessions = 0.
C14_Witness ==
    /\ maxSessions = 0
    /\ last = Returned("CreateSession", "maximum number of sessions reached")

\* C27: while TerminateSession is in the disconnect wait, the client close or
\* the process kill of one session, a CreateSession call (an operation on
\* another session) can take its step: it is not held up by the termination.
C27_OthersNotBlockedByTermination ==
    (/\ op.kind = "TerminateSession"
     /\ op.phase \in {"disconnecting", "closing", "kill"}
     /\ ~cancelled /\ nextId <= MaxIds) =>
        ENABLED CreateSession(RequestLanguage)

\* ------------------------------------------------------------------------
\* Properties of the launch handlers (specifications SpecRace, SpecLaunch)
\* ------------------------------------------------------------------------

\* C16: a session leaves status initializing only by the launch handler's
\* UpdateSessionStatus(running) at the end of the launch protocol; no
\* continue or pause call on the session id moves it out of initializing.
C16_OnlyLaunchLeavesInitializing ==
    [][\A id \in DOMAIN sessions \cap DOMAIN sessions' :
          (sessions[id].Status = "initializing"
              /\ sessions'[id].Status # "initializing") =>
             /\ h.pc = "update" /\ h.cur = id /\ h'.pc = "returned"
             /\ h.log = Steps(h.kind)
             /\ sessions'[id].Status = "running"
      ]_vars

\* ------------------------------------------------------------------------
\* Properties of the tool handlers (specification SpecTools)
\* ------------------------------------------------------------------------

\* C18: when the mode is not full, a call of a control tool ends with "tool
\* not found" and nothing is sent to the adapter; when allowModify is false,
\* a call of debug_set_variable is refused (not found, or modification not
\* allowed) before any client call and nothing is sent to the adapter.
C18_ControlToolsGated ==
    /\ (tool.name \in ControlTools /\ config.Mode # "full") =>
          /\ tool.pc = "returned"
          /\ tool.res = "tool not found"
          /\ tool.sent = <<>>
          /\ adapter.wire = <<>>
    /\ (tool.name = "debug_set_variable" /\ ~config.AllowModify) =>
          /\ tool.pc \in {"entry", "returned"}
          /\ tool.pc = "returned" =>
                tool.res \in {"tool not found",
                              "variable modification is not allowed"}
          /\ tool.sent = <<>>
          /\ adapter.wire = <<>>

\* C18 witness: in full mode with allowModify false, a debug_set_variable
\* call on the live session has returned "variable modification is not
\* allowed".
C18_Witness ==
    /\ config.Mode = "full" /\ ~config.AllowModify
    /\ tool.name = "debug_set_variable" /\ tool.id \in DOMAIN sessions
    /\ tool.pc = "returned"
    /\ tool.res = "variable modification is not allowed"

\* C19: in full mode, a debug_execute_command call on a session that has a
\* client is not rejected for its language when the language is c, cpp or
\* rust, and is rejected for its language, with no client call and nothing
\* sent to the adapter, for every other language.
C19_NativeSessionsAccepted ==
    (/\ config.Mode = "full"
     /\ tool.name = "debug_execute_command"
     /\ tool.id \in DOMAIN sessions
     /\ tool.pc = "returned") =>
        IF sessions[tool.id].Language \in {"c", "cpp", "rust"}
        THEN tool.res # "debug_execute_command only works with GDB/LLDB sessions"
        ELSE /\ tool.res = "debug_execute_command only works with GDB/LLDB sessions"
             /\ tool.sent = <<>>
             /\ adapter.wire = <<>>

\* C20: the snapshot of a debug_run_to_line call that returned a result
\* reports as stoppedAt the line the debuggee stopped at and as reason the
\* reason of the stopped event that ended the wait.
C20_SnapshotIsActualStop ==
    (/\ tool.name = "debug_run_to_line"
     /\ tool.pc = "returned"
     /\ tool.res = "ok") =>
        /\ tool.snapshot.stoppedAt = tool.at
        /\ tool.snapshot.reason = tool.reason

\* C32: once debug_continue has returned and the stopped event that ends the
\* run it started (a breakpoint hit) has been handled by the session's
\* client, the session's status is stopped.
C32_StoppedEventSetsStopped ==
    (/\ tool.name = "debug_continue" /\ tool.pc = "returned" /\ tool.res = "ok"
     /\ \E e \in stopLog : e.cause = th[2].seq) =>
        sessions[tool.id].Status = "stopped"

\* C34: when debug_run_to_line has returned, the breakpoints the adapter
\* holds for the source file are those it held before the call.
C34_RunToLineBreakpointIsTemporary ==
    (tool.name = "debug_run_to_line" /\ tool.pc = "returned") =>
        tool.bps = tool.before

\* ------------------------------------------------------------------------
\* Properties of batch evaluation (specification SpecEval)
\* ------------------------------------------------------------------------

\* C21: a batch debug_evaluate call that got past the permission and session
\* checks returns a result with exactly one entry per expression, in request
\* order; the entry is an error entry exactly when the Evaluate call of that
\* expression failed; every expression is evaluated whatever became of the
\* earlier ones; an empty array yields an empty evaluations list, not an
\* error.
C21_BatchOneEntryPerExpression ==
    (tool.batch /\ tool.pc = "returned" /\ tool.res # ToolRefusal) =>
        /\ tool.res = "ok"
        /\ Len(tool.results) = Len(tool.exprs)
        /\ Len(tool.outs) = Len(tool.exprs)
        /\ \A i \in 1..Len(tool.exprs) :
              /\ tool.results[i].expression = tool.exprs[i]
              /\ tool.results[i].kind = "error" <=> tool.outs[i] # "ok"
        /\ Len(SelectSeq(tool.sent, LAMBDA c : c = "evaluate")) = Len(tool.exprs)

\* C21 witness: a batch of two or more expressions has returned with an
\* error entry followed by a result entry.
C21_Witness ==
    /\ tool.batch /\ tool.pc = "returned" /\ tool.res = "ok"
    /\ Len(tool.results) >= 2
    /\ tool.results[1].kind = "error"
    /\ tool.results[2].kind = "result"

\* ------------------------------------------------------------------------
\* Properties of package launchconfig (specification SpecResolve)
\* ------------------------------------------------------------------------

\* C22: when some ${input:id} in a string of the configuration (the string
\* fields, the arrays, the extra bag) has no value in the context,
\* ResolveConfiguration returns a MissingInputsError that lists exactly the
\* ids without a value, each once, and has expanded nothing.
C22_MissingInputsListedOnce ==
    lc.pc = "returned" =>
       LET texts == {lc.cfg.program, lc.cfg.cwd, lc.cfg.webRoot, lc.cfg.url,
                     lc.cfg.python}
                       \cup Range(lc.cfg.args) \cup Values(lc.cfg.env)
                       \cup Values(lc.cfg.extra)
           missing == {id \in InputIds \ lc.inputValues :
                          \E t \in texts : Input(id) \in Range(t)}
       IN  missing # {} =>
              /\ lc.out.err = "MissingInputsError"
              /\ Range(lc.out.inputs) = missing
              /\ Len(lc.out.inputs) = Cardinality(missing)
              /\ lc.out.expanded = {}

\* C23: the configuration passed to MergeOverrides is what it was before the
\* call, after the call and after every later change to the configuration
\* the call returned.
C23_OriginalUnchanged ==
    lc.heap.cfg = lc.original

\* C24: a configuration that was parsed from a JSON object, serialized and
\* parsed again is equal to what it was: the same known fields, the same
\* extra bag.
C24_LoadSaveLoadIsIdentity ==
    lc.pc = "reloaded" => lc.again = lc.cfg

====
